---- MODULE Spec2Model ----
(***************************************************************************)
(* Story Hub: the schema-migration runner (src/migrations/migration.py),   *)
(* its two shipped units and the commands that drive it (src/cli.py).      *)
(*                                                                         *)
(* Text is modelled as sequences of one-character strings so that          *)
(* Python's str comparison, split, lower, replace, int() and the f-string  *)
(* "03d" format are computed the way the code computes them.               *)
(***************************************************************************)
EXTENDS Integers, Sequences, FiniteSets, TLC

\* ------------------------------------------------------------------ text

\* The characters used by the model, in code-point order (Python compares
\* str values by code point).
Chars ==
    << " ", "-", ".",
       "0", "1", "2", "3", "4", "5", "6", "7", "8", "9",
       "A", "B", "C", "D", "E", "F", "G", "H", "I", "J", "K", "L", "M",
       "N", "O", "P", "Q", "R", "S", "T", "U", "V", "W", "X", "Y", "Z",
       "_",
       "a", "b", "c", "d", "e", "f", "g", "h", "i", "j", "k", "l", "m",
       "n", "o", "p", "q", "r", "s", "t", "u", "v", "w", "x", "y", "z" >>

CharSet == { Chars[i] : i \in 1..Len(Chars) }

\* Rank of a character in code-point order.
Ord == [ c \in CharSet |-> CHOOSE i \in 1..Len(Chars) : Chars[i] = c ]

Digits == { "0", "1", "2", "3", "4", "5", "6", "7", "8", "9" }

Upper == { Chars[i] : i \in Ord["A"]..Ord["Z"] }

\* a < b on str: the first differing character decides, a proper prefix is
\* smaller.
StrLess(a, b) ==
    \E i \in 1..Len(b) :
        /\ i - 1 <= Len(a)
        /\ \A j \in 1..(i - 1) : a[j] = b[j]
        /\ (i > Len(a) \/ Ord[a[i]] < Ord[b[i]])

StrLeq(a, b) == a = b \/ StrLess(a, b)

\* (v1, f1) < (v2, f2) on tuples of str, as sorted() compares them.
PairLess(p, q) ==
    \/ StrLess(p[1], q[1])
    \/ (p[1] = q[1] /\ StrLess(p[2], q[2]))

\* s.endswith(suffix)
EndsWith(s, suffix) ==
    /\ Len(suffix) <= Len(s)
    /\ SubSeq(s, Len(s) - Len(suffix) + 1, Len(s)) = suffix

\* c in s
Contains(s, c) == \E i \in 1..Len(s) : s[i] = c

\* s.split(c)[0]: the text before the first c (all of s when c is absent).
SplitFirst(s, c) ==
    IF Contains(s, c)
        THEN SubSeq(s, 1, (CHOOSE i \in 1..Len(s) :
                              s[i] = c /\ \A j \in 1..(i - 1) : s[j] # c) - 1)
        ELSE s

\* str.lower() on one character.
LowerChar(c) ==
    IF c \in Upper THEN Chars[Ord[c] - Ord["A"] + Ord["a"]] ELSE c

\* s.lower()
Lower(s) == [ i \in 1..Len(s) |-> LowerChar(s[i]) ]

\* s.replace(old, new) for single characters.
Replace(s, old, new) == [ i \in 1..Len(s) |-> IF s[i] = old THEN new ELSE s[i] ]

\* s.replace(old, '') for a single character.
Remove(s, old) == SelectSeq(s, LAMBDA c : c # old)

\* Whether int(s) accepts s: the versions of the model are made of decimal
\* digits only, anything else raises ValueError.
IsInt(s) == Len(s) > 0 /\ \A i \in 1..Len(s) : s[i] \in Digits

DigitValue(c) == Ord[c] - Ord["0"]

\* int(s) for a string of decimal digits.
RECURSIVE ParseInt(_)
ParseInt(s) ==
    IF s = <<>> THEN 0
    ELSE 10 * ParseInt(SubSeq(s, 1, Len(s) - 1)) + DigitValue(s[Len(s)])

\* str(n) for n >= 0.
RECURSIVE ToDecimal(_)
ToDecimal(n) ==
    IF n < 10 THEN << Chars[Ord["0"] + n] >>
    ELSE Append(ToDecimal(n \div 10), Chars[Ord["0"] + (n % 10)])

\* The width of the "03d" format.
PadWidth == 3

\* f"{n:03d}" for n >= 0: zero-padded on the left to at least three digits.
Format03d(n) ==
    LET d == ToDecimal(n)
    IN  IF Len(d) >= PadWidth THEN d
        ELSE [ i \in 1..(PadWidth - Len(d)) |-> "0" ] \o d

PyExt == << ".", "p", "y" >>

InitPy == << "_", "_", "i", "n", "i", "t", "_", "_", ".", "p", "y" >>

MigrationPy == << "m", "i", "g", "r", "a", "t", "i", "o", "n", ".", "p", "y" >>

\* ------------------------------------------------------- unit files

F_001_initial_schema ==
    << "0", "0", "1", "_", "i", "n", "i", "t", "i", "a", "l", "_",
       "s", "c", "h", "e", "m", "a", ".", "p", "y" >>

F_002_analytics_tables ==
    << "0", "0", "2", "_", "a", "n", "a", "l", "y", "t", "i", "c", "s", "_",
       "t", "a", "b", "l", "e", "s", ".", "p", "y" >>

\* Unit files written by a developer; their bodies are not part of the
\* repository, so their load/up/down may succeed or raise.  001_z.py
\* carries the version of the shipped 001_initial_schema.py and sorts
\* after it.
F_001_z == << "0", "0", "1", "_", "z", ".", "p", "y" >>

F_9_y == << "9", "_", "y", ".", "p", "y" >>

F_10_x == << "1", "0", "_", "x", ".", "p", "y" >>

\* A helper module kept beside the units: discovery takes it for a unit
\* of version "seed".
F_seed_data == << "s", "e", "e", "d", "_", "d", "a", "t", "a", ".", "p", "y" >>

ShippedFiles == { F_001_initial_schema, F_002_analytics_tables }

AuthoredFiles == { F_001_z, F_9_y, F_10_x, F_seed_data }

\* What a file of the migrations directory holds.
Body(kind, name) == [ kind |-> kind, name |-> name ]

BodyOf(f) ==
    IF f = F_001_initial_schema THEN Body("initial_schema", <<>>)
    ELSE IF f = F_002_analytics_tables THEN Body("analytics_tables", <<>>)
    ELSE IF f = MigrationPy THEN Body("runner", <<>>)
    ELSE Body("authored", <<>>)

\* The one table an authored unit creates.
AuthoredTable(f) ==
    IF f = F_001_z THEN "t_001_z"
    ELSE IF f = F_9_y THEN "t_9_y"
    ELSE IF f = F_10_x THEN "t_10_x"
    ELSE "t_seed_data"

Stmt(op, obj) == [ op |-> op, obj |-> obj ]

\* InitialSchemaMigration.up: CREATE TABLE IF NOT EXISTS, in source order.
InitialSchemaTables ==
    << "posts", "tags", "post_tags", "categories", "admin_users",
       "post_templates", "image_gallery", "quotes", "email_config",
       "contact_messages", "social_links", "about_info" >>

\* InitialSchemaMigration.down: DROP TABLE IF EXISTS, in source order.
InitialSchemaDrops ==
    << "post_tags", "posts", "tags", "categories", "admin_users",
       "post_templates", "image_gallery", "quotes", "email_config",
       "contact_messages", "social_links", "about_info" >>

\* AnalyticsTablesMigration.up: three tables, then three indexes on
\* page_views.
AnalyticsCreates ==
    << "page_views", "daily_analytics", "post_analytics",
       "idx_page_views_date", "idx_page_views_post_id",
       "idx_page_views_ip_date" >>

\* AnalyticsTablesMigration.down: the indexes first, then the tables.
AnalyticsDrops ==
    << "idx_page_views_date", "idx_page_views_post_id",
       "idx_page_views_ip_date",
       "post_analytics", "daily_analytics", "page_views" >>

\* The statements of a unit's up(), by the body of its file.  A generated
\* skeleton's up() is "pass".  An authored unit creates its table and then
\* runs one more statement that touches no schema object.
UpStatements(f, body) ==
    IF body.kind = "initial_schema"
        THEN [ i \in 1..Len(InitialSchemaTables) |->
                 Stmt("create", InitialSchemaTables[i]) ]
    ELSE IF body.kind = "analytics_tables"
        THEN [ i \in 1..Len(AnalyticsCreates) |->
                 Stmt("create", AnalyticsCreates[i]) ]
    ELSE IF body.kind = "authored"
        THEN << Stmt("create", AuthoredTable(f)), Stmt("other", "") >>
    ELSE <<>>

\* The statements of a unit's down().
DownStatements(f, body) ==
    IF body.kind = "initial_schema"
        THEN [ i \in 1..Len(InitialSchemaDrops) |->
                 Stmt("drop", InitialSchemaDrops[i]) ]
    ELSE IF body.kind = "analytics_tables"
        THEN [ i \in 1..Len(AnalyticsDrops) |->
                 Stmt("drop", AnalyticsDrops[i]) ]
    ELSE IF body.kind = "authored"
        THEN << Stmt("drop", AuthoredTable(f)), Stmt("other", "") >>
    ELSE <<>>

\* Indexes that SQLite drops together with their table.
IndexesOn(table) ==
    IF table = "page_views"
        THEN { "idx_page_views_date", "idx_page_views_post_id",
               "idx_page_views_ip_date" }
        ELSE {}

\* Migration.execute_sql on the set of schema objects: IF [NOT] EXISTS
\* makes both statements total.
ExecuteSql(objects, stmt) ==
    IF stmt.op = "create" THEN objects \cup { stmt.obj }
    ELSE IF stmt.op = "drop" THEN objects \ ({ stmt.obj } \cup IndexesOn(stmt.obj))
    ELSE objects

\* The first n statements run in order.
RECURSIVE ExecuteAll(_, _, _)
ExecuteAll(objects, stmts, n) ==
    IF n = 0 THEN objects
    ELSE ExecuteSql(ExecuteAll(objects, stmts, n - 1), stmts[n])

\* The class name the generated skeleton declares for the given name.
TemplateClassName(name) ==
    Remove(Remove(name, " "), "_")
        \o << "M", "i", "g", "r", "a", "t", "i", "o", "n" >>

Letters == { Chars[i] : i \in Ord["A"]..Ord["Z"] } \cup
           { Chars[i] : i \in Ord["a"]..Ord["z"] }

\* Whether the text is a Python identifier (so that "class <text>(...)"
\* compiles).
IsIdentifier(s) ==
    /\ Len(s) > 0
    /\ s[1] \in Letters \cup { "_" }
    /\ \A i \in 1..Len(s) : s[i] \in Letters \cup Digits \cup { "_" }

\* ------------------------------------------------------------ state

VARIABLES
    dir,        \* the migrations directory: file name -> what the file holds
    ledger,     \* schema_migrations rows (committed), in applied_at order
    schema,     \* the tables and indexes of the database (the ledger aside)
    applyRun,   \* history: versions whose up() has completed and whose
                \* down() has not completed since
    generated,  \* number of generate_migration calls so far
    removed,    \* number of unit files removed from the directory so far
    call,       \* the last runner invocation: its arguments, what it saw
                \* when it started, what it did and what it returned
    udb,        \* a database a unit's up()/down() is run on directly:
                \* object name -> its kind, columns and number of rows
    udb0,       \* that database before the first step
    steps,      \* the up()/down() steps run on it so far
    page_views,         \* rows of page_views, in insertion order
    daily_analytics,    \* date -> the row of daily_analytics
    post_analytics,     \* post_id -> the row of post_analytics
    today,              \* what date.today() returns
    posts,      \* rows of posts by id, each with the tags post_tags links
    related,    \* the last get_related_posts call and the rows it returned
    sessions,   \* client -> its Flask session
    admin_users,    \* username -> the password its password_hash accepts
    content,    \* kind of content -> how often it has been changed
    request,    \* the last request: who sent what, the session flag it
                \* arrived with, the answer, what it changed
    site_posts, \* rows of posts as the admin pages wrote them, by id
    shown,      \* the last public page: who asked for what, and the ids
                \* of the posts handed to its template
    app_db,         \* the database of app.py: posts and admin_users
    app_session,    \* the session of the test client of app.py
    response,       \* what the last call of the test client returned
    entities,    \* kind of entity -> the ids that exist
    outcome,    \* the last request that addressed an entity, and how it ended
    contact_db,    \* the tables contact reads and writes: whether activity_log exists, the rows of contact_messages and activity_log, whether an email configuration is stored
    contacted,    \* the last contact request: what was submitted, what failed on the way, and the answer
    slug_posts,    \* rows of posts by id: title and slug
    slug_reqs,    \* request -> how far its create_post or edit_post has come, the slug it generated, the row it wrote and the row it read back
    featured,    \* the committed column featured of posts, by post id
    conns,    \* connection -> the feature or unfeature request it serves: how far it has come and the uncommitted rows of its transaction
    begun,    \* number of feature and unfeature requests begun so far
    unit_versions,    \* the versions of the unit files of a directory, in the order generate_migration created them
    apply_order,    \* the versions in the order migrate_up applied them
    categories,    \* rows of categories by id: the slug, or None once deleted
    category_of,    \* posts.category_id by post id (0 for NULL)
    tag_posts,    \* the ids of the rows of posts, and how many ids have been given out
    tag_rows,    \* rows of tags by id: name, slug, and live until deleted
    post_tags,    \* rows of post_tags: pairs of post_id and tag_id
    tagged,    \* the last edit-post request: the post, the tag string it submitted, and the number of operations so far
    invocations,    \* each migrate_up() invocation: where it is, and the pending units it read
    ledger_rows,    \* the committed versions of schema_migrations
    executed,    \* for each unit, the invocations that executed its up()
    writer,    \* the invocation whose connection holds the write lock, or 0
    unit_writes    \* for each unit, whether its up() changes rows and so opens a transaction

runnerVars == << dir, ledger, schema, applyRun, generated, removed, call >>

unitVars == << udb, udb0, steps >>

analyticsVars == << page_views, daily_analytics, post_analytics, today >>

relatedVars == << posts, related >>

adminVars == << sessions, admin_users, content, request >>

publicVars == << site_posts, shown >>

appVars == << app_db, app_session, response >>

\* The remaining parts of the state.
missingVars == << entities, outcome >>

contactVars == << contact_db, contacted >>

slugVars == << slug_posts, slug_reqs >>

featureVars == << featured, conns, begun >>

versionVars == << unit_versions, apply_order >>

introVars == << categories, category_of >>

tagVars == << tag_posts, tag_rows, post_tags, tagged >>

raceVars == << invocations, ledger_rows, executed, writer, unit_writes >>

laterVars ==
    << missingVars,
       contactVars,
       slugVars,
       featureVars,
       versionVars,
       introVars,
       tagVars,
       raceVars >>

earlierVars ==
    << runnerVars, unitVars, analyticsVars, relatedVars, adminVars,
       publicVars, appVars >>

notMissingVars ==
    << earlierVars,
       contactVars,
       slugVars,
       featureVars,
       versionVars,
       introVars,
       tagVars,
       raceVars >>

notContactVars ==
    << earlierVars,
       missingVars,
       slugVars,
       featureVars,
       versionVars,
       introVars,
       tagVars,
       raceVars >>

notSlugVars ==
    << earlierVars,
       missingVars,
       contactVars,
       featureVars,
       versionVars,
       introVars,
       tagVars,
       raceVars >>

notFeatureVars ==
    << earlierVars,
       missingVars,
       contactVars,
       slugVars,
       versionVars,
       introVars,
       tagVars,
       raceVars >>

notVersionVars ==
    << earlierVars,
       missingVars,
       contactVars,
       slugVars,
       featureVars,
       introVars,
       tagVars,
       raceVars >>

notIntroVars ==
    << earlierVars,
       missingVars,
       contactVars,
       slugVars,
       featureVars,
       versionVars,
       tagVars,
       raceVars >>

notTagVars ==
    << earlierVars,
       missingVars,
       contactVars,
       slugVars,
       featureVars,
       versionVars,
       introVars,
       raceVars >>

notRaceVars ==
    << earlierVars,
       missingVars,
       contactVars,
       slugVars,
       featureVars,
       versionVars,
       introVars,
       tagVars >>

MissingIdle == entities = <<>> /\ outcome = <<>>

ContactIdle == contact_db = <<>> /\ contacted = <<>>

SlugIdle == slug_posts = <<>> /\ slug_reqs = <<>>

FeatureIdle == featured = <<>> /\ conns = <<>> /\ begun = <<>>

VersionIdle == unit_versions = <<>> /\ apply_order = <<>>

IntroIdle == categories = <<>> /\ category_of = <<>>

TagIdle == tag_posts = <<>> /\ tag_rows = <<>> /\ post_tags = <<>> /\ tagged = <<>>

RaceIdle == invocations = <<>> /\ ledger_rows = <<>> /\ executed = <<>> /\ writer = <<>> /\ unit_writes = <<>>

LaterIdle ==
    /\ MissingIdle
    /\ ContactIdle
    /\ SlugIdle
    /\ FeatureIdle
    /\ VersionIdle
    /\ IntroIdle
    /\ TagIdle
    /\ RaceIdle

NotMissingIdle ==
    /\ ContactIdle
    /\ SlugIdle
    /\ FeatureIdle
    /\ VersionIdle
    /\ IntroIdle
    /\ TagIdle
    /\ RaceIdle

NotContactIdle ==
    /\ MissingIdle
    /\ SlugIdle
    /\ FeatureIdle
    /\ VersionIdle
    /\ IntroIdle
    /\ TagIdle
    /\ RaceIdle

NotSlugIdle ==
    /\ MissingIdle
    /\ ContactIdle
    /\ FeatureIdle
    /\ VersionIdle
    /\ IntroIdle
    /\ TagIdle
    /\ RaceIdle

NotFeatureIdle ==
    /\ MissingIdle
    /\ ContactIdle
    /\ SlugIdle
    /\ VersionIdle
    /\ IntroIdle
    /\ TagIdle
    /\ RaceIdle

NotVersionIdle ==
    /\ MissingIdle
    /\ ContactIdle
    /\ SlugIdle
    /\ FeatureIdle
    /\ IntroIdle
    /\ TagIdle
    /\ RaceIdle

NotIntroIdle ==
    /\ MissingIdle
    /\ ContactIdle
    /\ SlugIdle
    /\ FeatureIdle
    /\ VersionIdle
    /\ TagIdle
    /\ RaceIdle

NotTagIdle ==
    /\ MissingIdle
    /\ ContactIdle
    /\ SlugIdle
    /\ FeatureIdle
    /\ VersionIdle
    /\ IntroIdle
    /\ RaceIdle

NotRaceIdle ==
    /\ MissingIdle
    /\ ContactIdle
    /\ SlugIdle
    /\ FeatureIdle
    /\ VersionIdle
    /\ IntroIdle
    /\ TagIdle

vars ==
    << runnerVars, unitVars, analyticsVars, relatedVars, adminVars,
       publicVars, appVars, laterVars >>

\* What the operations of one part of the program leave alone.
notRunnerVars ==
    << unitVars, analyticsVars, relatedVars, adminVars, publicVars, appVars,
       laterVars >>

notUnitVars ==
    << runnerVars, analyticsVars, relatedVars, adminVars, publicVars, appVars,
       laterVars >>

notAnalyticsVars ==
    << runnerVars, unitVars, relatedVars, adminVars, publicVars, appVars,
       laterVars >>

notRelatedVars ==
    << runnerVars, unitVars, analyticsVars, adminVars, publicVars, appVars,
       laterVars >>

notAdminVars ==
    << runnerVars, unitVars, analyticsVars, relatedVars, publicVars, appVars,
       laterVars >>

notPublicVars ==
    << runnerVars, unitVars, analyticsVars, relatedVars, adminVars, appVars,
       laterVars >>

notAppVars ==
    << runnerVars, unitVars, analyticsVars, relatedVars, adminVars,
       publicVars, laterVars >>

\* The parts of the state at rest.
UnitsIdle == udb = <<>> /\ udb0 = <<>> /\ steps = <<>>

AnalyticsIdle ==
    /\ page_views = <<>>
    /\ daily_analytics = <<>>
    /\ post_analytics = <<>>
    /\ today = 1

RelatedIdle == posts = <<>> /\ related = <<>>

AdminIdle ==
    /\ sessions = <<>>
    /\ admin_users = <<>>
    /\ content = <<>>
    /\ request = <<>>

PublicIdle == site_posts = <<>> /\ shown = <<>>

AppIdle == app_db = <<>> /\ app_session = <<>> /\ response = <<>>

NotRunnerIdle ==
    /\ UnitsIdle /\ AnalyticsIdle /\ RelatedIdle /\ AdminIdle
    /\ PublicIdle /\ AppIdle /\ LaterIdle

\* How many unit files generate_migration may add in one behaviour.
MaxGenerated == 1

\* How many unit files developers may remove in one behaviour.
MaxRemoved == 1

\* The names passed to generate_migration.
N_AddQuotes == << "A", "d", "d", " ", "Q", "u", "o", "t", "e", "s" >>

N_a_b == << "a", "-", "b" >>

GenNames == { N_AddQuotes, N_a_b }

V_000 == << "0", "0", "0" >>

V_001 == << "0", "0", "1" >>

V_002 == << "0", "0", "2" >>

V_003 == << "0", "0", "3" >>

\* ------------------------------------------------------ the runner

\* MigrationManager._discover_migrations: the (version, filename) pairs of
\* the directory.  os.listdir gives them in no particular order, so the
\* result is a set; a caller that depends on the order chooses one.
DiscoverMigrations(d) ==
    { << SplitFirst(f, "_"), f >> :
        f \in { g \in DOMAIN d :
                  /\ EndsWith(g, PyExt)
                  /\ g # InitPy
                  /\ g # MigrationPy
                  /\ Contains(g, "_") } }

\* MigrationManager._get_applied_versions
AppliedVersions(l) == { l[i].version : i \in 1..Len(l) }

\* sorted(): a set of pairs as the ascending list.
RECURSIVE Sorted(_)
Sorted(S) ==
    IF S = {} THEN <<>>
    ELSE LET m == CHOOSE x \in S : \A y \in S : ~PairLess(y, x)
         IN  << m >> \o Sorted(S \ { m })

\* A plausible slip: the pending list without the test against the ledger.
PendingMigrationsUnfiltered(d, l) == Sorted(DiscoverMigrations(d))

\* MigrationManager.get_pending_migrations
PendingMigrations(d, l) ==
    Sorted({ p \in DiscoverMigrations(d) : p[1] \notin AppliedVersions(l) })

\* MigrationManager.get_applied_migrations: ORDER BY applied_at DESC.
\* applied_at is datetime.now() at the INSERT, so later rows are newer.
AppliedMigrations(l) == [ i \in 1..Len(l) |-> l[Len(l) + 1 - i] ]

\* MigrationManager.status
Status(d, l) ==
    [ applied_count |-> Len(AppliedMigrations(l)),
      pending_count |-> Len(PendingMigrations(d, l)),
      applied |-> AppliedMigrations(l),
      pending |-> PendingMigrations(d, l) ]

\* One point of one step at which an exception is raised: loading the
\* unit, statement k of up()/down(), the INSERT/DELETE on the ledger, or
\* the commit.
Fault(unit, at, k) == [ unit |-> unit, at |-> at, k |-> k ]

NoFault == Fault(<<>>, "none", 0)

\* The exceptions an invocation can meet while it works on the given unit
\* files, at the given points.  A shipped unit loads and its IF [NOT]
\* EXISTS statements do not raise; a skeleton's up()/down() is "pass"; an
\* authored unit may fail to load and either of its statements may raise;
\* the database may refuse any write or commit.  One invocation ends at
\* its first exception, so one fault per invocation is enough.
Faults(d, units, direction, write) ==
    LET authored == { f \in units : d[f].kind = "authored" }
    IN  { NoFault }
        \cup { Fault(f, "load", 0) : f \in authored }
        \cup { Fault(f, direction, k) : f \in authored, k \in 1..2 }
        \cup { Fault(f, at, 0) : f \in units, at \in { write, "commit" } }

\* MigrationManager._load_migration raises: the file does not compile, or
\* holds no Migration subclass.
LoadRaises(d, f, fault) ==
    \/ (fault.unit = f /\ fault.at = "load")
    \/ (d[f].kind = "template" /\ ~IsIdentifier(TemplateClassName(d[f].name)))

Event(ev, version, file) == [ ev |-> ev, version |-> version, file |-> file ]

Result(kind, version) == [ kind |-> kind, version |-> version ]

\* The local state of one migrate_up / migrate_down invocation.
Start(l, s, a) ==
    [ ledger |-> l, schema |-> s, applyRun |-> a,
      results |-> <<>>, events |-> <<>>,
      db |-> FALSE,         \* whether the local name db is bound
      halt |-> FALSE,       \* the loop was left by break or by an exception
      exc |-> "",           \* the exception that escaped to the caller
      failAt |-> "", failVersion |-> <<>>, failFile |-> <<>> ]

\* A plausible slip: the except clause without its break.
ExceptWithoutBreak(st, kind, version, file, at) ==
    LET failed == [ st EXCEPT !.failAt = at, !.failVersion = version,
                              !.failFile = file ]
    IN  IF ~st.db
            THEN [ failed EXCEPT !.exc = "UnboundLocalError", !.halt = TRUE ]
            ELSE [ failed EXCEPT
                     !.events = Append(@, Event("rollback", version, file)),
                     !.results = Append(@, Result(kind, version)) ]

\* The except clause of either loop: db.rollback(), append the failure,
\* break.  db is bound inside the try block only after the unit is loaded,
\* so when no earlier step of this invocation bound it, db.rollback()
\* itself raises UnboundLocalError, which leaves the function.
Except(st, kind, version, file, at) ==
    LET failed == [ st EXCEPT !.halt = TRUE, !.failAt = at,
                              !.failVersion = version, !.failFile = file ]
    IN  IF ~st.db
            THEN [ failed EXCEPT !.exc = "UnboundLocalError" ]
            ELSE [ failed EXCEPT
                     !.events = Append(@, Event("rollback", version, file)),
                     !.results = Append(@, Result(kind, version)) ]

\* The statements of up()/down() that run: all of them, or those before
\* the one that raises.
Ran(stmts, fault, f, at) ==
    IF fault.unit = f /\ fault.at = at /\ fault.k <= Len(stmts)
        THEN fault.k - 1
        ELSE Len(stmts)

Raises(stmts, fault, f, at) ==
    fault.unit = f /\ fault.at = at /\ fault.k <= Len(stmts)

\* The INSERT INTO schema_migrations raises: version is UNIQUE, or the
\* database refuses the write.
InsertRaises(l, version, fault, f) ==
    \/ version \in AppliedVersions(l)
    \/ (fault.unit = f /\ fault.at = "insert")

\* A plausible slip: the file name is bound where the version belongs.
LedgerRowOfFilename(version, f) == [ version |-> f, file |-> f ]

\* The row of "INSERT INTO schema_migrations (version, name, applied_at)":
\* the version, and the class found in the unit file (kept as the file it
\* came from).
LedgerRow(version, f) == [ version |-> version, file |-> f ]

\* The body of the try block of migrate_up for one pending unit.  DDL
\* takes effect as each statement runs (the sqlite3 module opens no
\* transaction for it), so rollback() only discards the ledger row.
MigrateUpStep(d, st, version, f, fault) ==
    LET stmts == UpStatements(f, d[f])
        s1 == [ st EXCEPT !.events = Append(@, Event("load", version, f)) ]
        s2 == [ s1 EXCEPT !.db = TRUE,
                          !.events = Append(@, Event("up", version, f)),
                          !.schema = ExecuteAll(@, stmts, Ran(stmts, fault, f, "up")) ]
        s3 == [ s2 EXCEPT !.applyRun = @ \cup { version },
                          !.events = Append(@, Event("insert", version, f)) ]
        s4 == [ s3 EXCEPT !.events = Append(@, Event("commit", version, f)) ]
    IN  IF LoadRaises(d, f, fault)
            THEN Except(s1, "Failed to apply", version, f, "load")
        ELSE IF Raises(stmts, fault, f, "up")
            THEN Except(s2, "Failed to apply", version, f, "up")
        ELSE IF InsertRaises(st.ledger, version, fault, f)
            THEN Except(s3, "Failed to apply", version, f, "insert")
        ELSE IF fault.unit = f /\ fault.at = "commit"
            THEN Except(s4, "Failed to apply", version, f, "commit")
        ELSE [ s4 EXCEPT
                 !.ledger = Append(@, LedgerRow(version, f)),
                 !.results = Append(@, Result("Applied", version)) ]

\* A plausible slip: the guard without its "target_version and" part, so
\* that a missing target stops the loop at once.
PastTargetUnguarded(version, target) == StrLess(target, version)

\* A plausible slip: ">=" for ">", so that the target itself is skipped.
PastTargetInclusive(version, target) == target # <<>> /\ StrLeq(target, version)

\* "if target_version and version > target_version: break".  None and the
\* empty string are both false, and both are written <<>>.
PastTarget(version, target) == target # <<>> /\ StrLess(target, version)

\* The for loop of migrate_up over the pending list.
RECURSIVE MigrateUpLoop(_, _, _, _, _)
MigrateUpLoop(d, st, todo, target, fault) ==
    IF todo = <<>> \/ st.halt THEN st
    ELSE IF PastTarget(Head(todo)[1], target) THEN st
    ELSE MigrateUpLoop(d,
             MigrateUpStep(d, st, Head(todo)[1], Head(todo)[2], fault),
             Tail(todo), target, fault)

\* "if version <= target_version: break" of migrate_down.
AtOrBelowTarget(version, target) == StrLeq(version, target)

\* The body of the loop of migrate_down for one ledger row; first[v] is
\* the unit file of version v that the listing of the directory gives
\* first.
MigrateDownStep(d, st, version, first, fault) ==
    IF version \notin DOMAIN first
        THEN [ st EXCEPT !.results = Append(@, Result("Migration file not found", version)),
                         !.events = Append(@, Event("notfound", version, <<>>)) ]
    ELSE
    LET f == first[version]
        stmts == DownStatements(f, d[f])
        s1 == [ st EXCEPT !.events = Append(@, Event("load", version, f)) ]
        s2 == [ s1 EXCEPT !.db = TRUE,
                          !.events = Append(@, Event("down", version, f)),
                          !.schema = ExecuteAll(@, stmts, Ran(stmts, fault, f, "down")) ]
        s3 == [ s2 EXCEPT !.applyRun = @ \ { version },
                          !.events = Append(@, Event("delete", version, f)) ]
        s4 == [ s3 EXCEPT !.events = Append(@, Event("commit", version, f)) ]
    IN  IF LoadRaises(d, f, fault)
            THEN Except(s1, "Failed to rollback", version, f, "load")
        ELSE IF Raises(stmts, fault, f, "down")
            THEN Except(s2, "Failed to rollback", version, f, "down")
        ELSE IF fault.unit = f /\ fault.at = "delete"
            THEN Except(s3, "Failed to rollback", version, f, "delete")
        ELSE IF fault.unit = f /\ fault.at = "commit"
            THEN Except(s4, "Failed to rollback", version, f, "commit")
        ELSE [ s4 EXCEPT
                 !.ledger = SelectSeq(@, LAMBDA row : row.version # version),
                 !.results = Append(@, Result("Rolled back", version)) ]

\* The for loop of migrate_down over the rows read at its start.
RECURSIVE MigrateDownLoop(_, _, _, _, _, _)
MigrateDownLoop(d, st, applied, target, first, fault) ==
    IF applied = <<>> \/ st.halt THEN st
    ELSE IF AtOrBelowTarget(Head(applied).version, target) THEN st
    ELSE MigrateDownLoop(d,
             MigrateDownStep(d, st, Head(applied).version, first, fault),
             Tail(applied), target, first, fault)

\* The ways the listing of the directory can order the unit files of each
\* version: one first file per discovered version.
FirstMatches(d) ==
    LET found == DiscoverMigrations(d)
        versions == { p[1] : p \in found }
    IN  { m \in [ versions -> { p[2] : p \in found } ] :
            \A v \in versions : << v, m[v] >> \in found }

\* A plausible slip: the next version from the number of units, not from
\* the largest version.
NextVersionByCount(existing) == Format03d(Cardinality(existing) + 1)

\* MigrationManager.generate_migration: the next version.
NextVersion(existing) ==
    IF existing # {}
        THEN LET numbers == { ParseInt(p[1]) : p \in existing }
                 last_version == CHOOSE n \in numbers : \A m \in numbers : m <= n
             IN  Format03d(last_version + 1)
        ELSE V_001

\* MigrationManager.generate_migration: the safe name.
SafeName(name) == Replace(Replace(Lower(name), " ", "_"), "-", "_")

\* MigrationManager.generate_migration: the file name.
GeneratedFilename(existing, name) ==
    NextVersion(existing) \o << "_" >> \o SafeName(name) \o PyExt

\* open(filepath, 'w').write(template)
WriteFile(d, f, body) ==
    [ g \in DOMAIN d \cup { f } |-> IF g = f THEN body ELSE d[g] ]

\* What is kept of an invocation.
Call(op, target, name, signal, st, created) ==
    [ op |-> op, target |-> target, name |-> name,
      signal |-> signal, exc |-> st.exc,
      results |-> st.results, events |-> st.events,
      failAt |-> st.failAt, failVersion |-> st.failVersion,
      failFile |-> st.failFile,
      created |-> created,
      dir0 |-> dir, ledger0 |-> ledger, schema0 |-> schema ]

\* What migrate_up / migrate_down hand back: the results list, unless an
\* exception left the function.
Returned(st) == IF st.exc # "" THEN "raised" ELSE "results"

\* ---------------------------------------------------------- actions

\* The versions an operator passes to migrate-to / rollback.
Targets == { p[1] : p \in DiscoverMigrations(dir) } \cup { V_000 }

\* The unit files a migrate_up reaches before its loop breaks on the
\* target.
UpWork(pending, target) ==
    { pending[i][2] : i \in { j \in 1..Len(pending) :
        \A k \in 1..j : ~PastTarget(pending[k][1], target) } }

\* The unit files a migrate_down reaches before its loop breaks on the
\* target.
DownWork(applied, target, first) ==
    { first[applied[i].version] : i \in { j \in 1..Len(applied) :
        /\ \A k \in 1..j : ~AtOrBelowTarget(applied[k].version, target)
        /\ applied[j].version \in DOMAIN first } }

\* MigrationManager.migrate_up(target_version), with the exception (if
\* any) that it meets.
migrate_up ==
    \E pending \in { PendingMigrations(dir, ledger) },
       st0 \in { Start(ledger, schema, applyRun) },
       target \in Targets \cup { <<>> } :
    \E fault \in Faults(dir, UpWork(pending, target), "up", "insert") :
    \E st \in { MigrateUpLoop(dir, st0, pending, target, fault) } :
        IF pending = <<>>
            THEN /\ call' = Call("migrate_up", target, <<>>,
                                 "No pending migrations.", st0, <<>>)
                 /\ UNCHANGED << dir, ledger, schema, applyRun, generated, removed, notRunnerVars >>
            ELSE /\ ledger' = st.ledger
                 /\ schema' = st.schema
                 /\ applyRun' = st.applyRun
                 /\ call' = Call("migrate_up", target, <<>>, Returned(st), st, <<>>)
                 /\ UNCHANGED << dir, generated, removed, notRunnerVars >>

\* MigrationManager.migrate_down(target_version), with the order in which
\* the directory is listed and the exception (if any) that it meets.
migrate_down ==
    \E applied \in { AppliedMigrations(ledger) },
       st0 \in { Start(ledger, schema, applyRun) },
       target \in Targets,
       first \in FirstMatches(dir) :
    \E fault \in Faults(dir, DownWork(applied, target, first), "down", "delete") :
    \E st \in { MigrateDownLoop(dir, st0, applied, target, first, fault) } :
        /\ ledger' = st.ledger
        /\ schema' = st.schema
        /\ applyRun' = st.applyRun
        /\ call' = Call("migrate_down", target, <<>>, Returned(st), st, <<>>)
        /\ UNCHANGED << dir, generated, removed, notRunnerVars >>

\* MigrationManager.generate_migration(name)
generate_migration(name) ==
    LET existing_migrations == DiscoverMigrations(dir)
        st0 == Start(ledger, schema, applyRun)
    IN  /\ generated < MaxGenerated
        /\ generated' = generated + 1
        /\ IF \E p \in existing_migrations : ~IsInt(p[1])
               THEN /\ call' = Call("generate_migration", <<>>, name, "raised",
                                    [ st0 EXCEPT !.exc = "ValueError" ], <<>>)
                    /\ UNCHANGED dir
               ELSE LET filename == GeneratedFilename(existing_migrations, name)
                    IN  /\ dir' = WriteFile(dir, filename, Body("template", name))
                        /\ call' = Call("generate_migration", <<>>, name,
                                        "Generated migration", st0, filename)
        /\ UNCHANGED << ledger, schema, applyRun, removed, notRunnerVars >>

\* A developer removes a unit file from the migrations directory.
remove_unit_file(f) ==
    /\ f \in DOMAIN dir
    /\ f # MigrationPy
    /\ removed < MaxRemoved
    /\ removed' = removed + 1
    /\ dir' = [ g \in DOMAIN dir \ { f } |-> dir[g] ]
    /\ UNCHANGED << ledger, schema, applyRun, generated, call, notRunnerVars >>

\* The unit files the directory starts with: none; the two shipped units;
\* the shipped units and a second file of version 001; two units whose
\* versions are not zero-padded; a file whose version is no number.
InitDirs ==
    { {}, ShippedFiles, ShippedFiles \cup { F_001_z }, { F_9_y, F_10_x },
      { F_seed_data } }

\* After MigrationManager.init_app on a new database: the ledger table
\* exists and is empty; the directory holds migration.py and the unit
\* files.
RunnerInit ==
    /\ \E S \in InitDirs :
           dir = [ f \in S \cup { MigrationPy } |-> BodyOf(f) ]
    /\ ledger = <<>>
    /\ schema = {}
    /\ applyRun = {}
    /\ generated = 0
    /\ removed = 0
    /\ call = Call("init_app", <<>>, <<>>, "", Start(<<>>, {}, {}), <<>>)

Init == RunnerInit /\ NotRunnerIdle

Next ==
    \/ migrate_up
    \/ migrate_down
    \/ \E name \in GenNames : generate_migration(name)

\* The runner's own operations on a directory nobody else touches.
Spec == Init /\ [][Next]_vars

NextEnv ==
    \/ Next
    \/ \E f \in DOMAIN dir : remove_unit_file(f)

\* The runner's operations while developers also remove unit files.
SpecEnv == Init /\ [][NextEnv]_vars

\* ------------------------------------------- units on a database

\* The columns of the tables the shipped units create.
Columns(t) ==
    IF t = "posts" THEN
        {
          "id", "title", "content", "excerpt", "image_filename",
          "image_position_x", "image_position_y", "post_type",
          "category_id", "slug", "featured", "status", "publish_date",
          "template_id", "meta_description", "meta_keywords",
          "canonical_url", "created_at", "updated_at" }
    ELSE
    IF t = "tags" THEN
        {
          "id", "name", "slug", "created_at" }
    ELSE
    IF t = "post_tags" THEN
        {
          "post_id", "tag_id" }
    ELSE
    IF t = "categories" THEN
        {
          "id", "name", "slug", "description", "created_at" }
    ELSE
    IF t = "admin_users" THEN
        {
          "id", "username", "password_hash", "created_at" }
    ELSE
    IF t = "post_templates" THEN
        {
          "id", "name", "description", "content_template", "created_at",
          "updated_at" }
    ELSE
    IF t = "image_gallery" THEN
        {
          "id", "filename", "original_filename", "alt_text", "caption",
          "file_size", "width", "height", "uploaded_at" }
    ELSE
    IF t = "quotes" THEN
        {
          "id", "text", "author", "source", "language", "is_active",
          "display_order", "created_at", "updated_at" }
    ELSE
    IF t = "email_config" THEN
        {
          "id", "smtp_server", "smtp_port", "smtp_username",
          "smtp_password", "from_email", "to_email", "use_tls",
          "created_at", "updated_at" }
    ELSE
    IF t = "contact_messages" THEN
        {
          "id", "name", "email", "subject", "message", "created_at" }
    ELSE
    IF t = "social_links" THEN
        {
          "id", "name", "url", "icon_class", "display_order", "is_active",
          "created_at", "updated_at" }
    ELSE
    IF t = "about_info" THEN
        {
          "id", "name", "email", "bio", "image_filename", "website_url",
          "github_url", "linkedin_url", "twitter_url", "created_at",
          "updated_at" }
    ELSE
    IF t = "page_views" THEN
        {
          "id", "url", "page_title", "user_agent", "ip_address",
          "referrer", "post_id", "view_date", "created_at" }
    ELSE
    IF t = "daily_analytics" THEN
        {
          "id", "date", "total_views", "unique_visitors", "created_at",
          "updated_at" }
    ELSE
    IF t = "post_analytics" THEN
        {
          "id", "post_id", "views_count", "unique_views", "last_viewed",
          "created_at", "updated_at" }
    ELSE {}

\* The indexes AnalyticsTablesMigration.up creates, all on page_views.
IndexNames ==
    { "idx_page_views_date", "idx_page_views_post_id",
      "idx_page_views_ip_date" }

Table(cols, rows) == [ kind |-> "table", cols |-> cols, rows |-> rows ]

Index(table) == [ kind |-> "index", cols |-> {}, rows |-> 0, on |-> table ]

\* A database file nothing has been created in.
EmptyDb == <<>>

\* The database init_db of app.py leaves: posts in its first layout,
\* admin_users, and the default admin row.
AppInitDb ==
    [ t \in { "posts", "admin_users" } |->
        IF t = "posts"
            THEN Table({ "id", "title", "content", "excerpt", "image_filename",
                         "post_type", "created_at", "updated_at" }, 0)
            ELSE Table({ "id", "username", "password_hash", "created_at" }, 1) ]

\* Migration.execute_sql for the statements of the shipped units: CREATE
\* ... IF NOT EXISTS leaves an existing object as it is, DROP TABLE IF
\* EXISTS removes the table with its rows and its indexes.
ExecuteDdl(d, stmt) ==
    IF stmt.op = "create"
        THEN IF stmt.obj \in DOMAIN d THEN d
             ELSE [ o \in DOMAIN d \cup { stmt.obj } |->
                      IF o # stmt.obj THEN d[o]
                      ELSE IF o \in IndexNames THEN Index("page_views")
                      ELSE Table(Columns(o), 0) ]
    ELSE IF stmt.op = "drop"
        THEN [ o \in DOMAIN d \ ({ stmt.obj } \cup IndexesOn(stmt.obj)) |-> d[o] ]
    ELSE d

RECURSIVE ExecuteDdlAll(_, _, _)
ExecuteDdlAll(d, stmts, n) ==
    IF n = 0 THEN d
    ELSE ExecuteDdl(ExecuteDdlAll(d, stmts, n - 1), stmts[n])

\* up() and down() of a shipped unit, run to the end.
UnitUp(f, d) ==
    ExecuteDdlAll(d, UpStatements(f, BodyOf(f)), Len(UpStatements(f, BodyOf(f))))

UnitDown(f, d) ==
    ExecuteDdlAll(d, DownStatements(f, BodyOf(f)), Len(DownStatements(f, BodyOf(f))))

\* How many steps are run on one database.
MaxSteps == 3

Step(f, direction) == [ unit |-> f, direction |-> direction ]

\* Migration.up(db) of a shipped unit
unit_up(f) ==
    /\ Len(steps) < MaxSteps
    /\ udb' = UnitUp(f, udb)
    /\ steps' = Append(steps, Step(f, "up"))
    /\ UNCHANGED << udb0, notUnitVars >>

\* Migration.down(db) of a shipped unit
unit_down(f) ==
    /\ Len(steps) < MaxSteps
    /\ udb' = UnitDown(f, udb)
    /\ steps' = Append(steps, Step(f, "down"))
    /\ UNCHANGED << udb0, notUnitVars >>

\* The runner's state while units are run by hand.
RunnerIdle ==
    /\ dir = [ f \in ShippedFiles \cup { MigrationPy } |-> BodyOf(f) ]
    /\ ledger = <<>>
    /\ schema = {}
    /\ applyRun = {}
    /\ generated = 0
    /\ removed = 0
    /\ call = Call("init_app", <<>>, <<>>, "", Start(<<>>, {}, {}), <<>>)

\* The parts modelled above at rest.
EarlierIdle ==
    /\ RunnerIdle /\ UnitsIdle /\ AnalyticsIdle /\ RelatedIdle /\ AdminIdle
    /\ PublicIdle /\ AppIdle

InitUnits ==
    /\ RunnerIdle
    /\ AnalyticsIdle
    /\ RelatedIdle
    /\ AdminIdle
    /\ PublicIdle
    /\ AppIdle
    /\ LaterIdle
    /\ udb0 \in { EmptyDb, AppInitDb }
    /\ udb = udb0
    /\ steps = <<>>

NextUnits ==
    \/ \E f \in ShippedFiles : unit_up(f)
    \/ \E f \in ShippedFiles : unit_down(f)

\* The shipped units applied and reverted directly, on a new database and
\* on one that init_db of app.py created.
SpecUnits == InitUnits /\ [][NextUnits]_vars

\* ------------------------------------------------------ analytics

\* Python's None and SQL's NULL among the values of a column.
None == "None"

\* The values of the arguments: no address or one of two, no post or one
\* of two.
IpAddresses == { None, "ip1", "ip2" }

PostIds == { None, "post1", "post2" }

\* How many page views are recorded and how many days pass.
MaxViews == 3

MaxDay == 2

View(ip_address, post_id, view_date) ==
    [ ip_address |-> ip_address, post_id |-> post_id, view_date |-> view_date ]

\* The plain row count a slip would put where the distinct addresses
\* are counted.
CountRows(views, rows) == Cardinality(rows)

\* COUNT(DISTINCT ip_address) over the given rows of page_views: NULL is
\* not counted.
CountDistinctIp(views, rows) ==
    Cardinality({ views[i].ip_address : i \in rows } \ { None })

\* COALESCE((SELECT col FROM t WHERE key = ?), 0)
Coalesce(t, key, col) == IF key \in DOMAIN t THEN t[key][col] ELSE 0

\* INSERT OR REPLACE on a table with a UNIQUE key
InsertOrReplace(t, key, row) ==
    [ k \in DOMAIN t \cup { key } |-> IF k = key THEN row ELSE t[k] ]

\* AnalyticsModel.track_page_view
track_page_view(ip_address, post_id) ==
    LET view_date == today
        views == Append(page_views, View(ip_address, post_id, view_date))
        ofDay == { i \in 1..Len(views) : views[i].view_date = view_date }
        ofPost == { i \in 1..Len(views) : views[i].post_id = post_id }
    IN  /\ Len(page_views) < MaxViews
        /\ page_views' = views
        /\ daily_analytics' =
               InsertOrReplace(daily_analytics, view_date,
                   [ total_views |-> Coalesce(daily_analytics, view_date, "total_views") + 1,
                     unique_visitors |-> CountDistinctIp(views, ofDay) ])
        /\ post_analytics' =
               IF post_id # None
                   THEN InsertOrReplace(post_analytics, post_id,
                            [ views_count |-> Coalesce(post_analytics, post_id, "views_count") + 1,
                              unique_views |-> CountDistinctIp(views, ofPost) ])
                   ELSE post_analytics
        /\ UNCHANGED << today, notAnalyticsVars >>

\* Midnight passes.
next_day ==
    /\ today < MaxDay
    /\ today' = today + 1
    /\ UNCHANGED << page_views, daily_analytics, post_analytics, notAnalyticsVars >>

InitAnalytics ==
    /\ RunnerIdle /\ UnitsIdle /\ AnalyticsIdle /\ RelatedIdle /\ AdminIdle
    /\ PublicIdle /\ AppIdle /\ LaterIdle

NextAnalytics ==
    \/ \E ip_address \in IpAddresses, post_id \in PostIds :
           track_page_view(ip_address, post_id)
    \/ next_day

\* Page views recorded one after another on empty analytics tables.
SpecAnalytics == InitAnalytics /\ [][NextAnalytics]_vars

\* -------------------------------------------------- related posts

\* A row of posts, with the tag ids of its post_tags rows.  created_at
\* and publish_date are points in time; the query runs at time Now.
Post(category_id, post_type, status, tags, created_at, publish_date) ==
    [ category_id |-> category_id, post_type |-> post_type,
      status |-> status, tags |-> tags,
      created_at |-> created_at, publish_date |-> publish_date ]

Now == 2

\* A publish_date of NULL, among the points in time 1, 2, 3.
NoDate == 0

\* The id of the post the related posts are asked for, and an id no post
\* has.
CurrentId == 1

MissingId == 4

\* The largest limit passed.
MaxLimit == 2

\* What the post asked for may look like: in category c1 or in none,
\* published or draft, with tags a and b.
CurrentPosts ==
    { Post(c, "article", st, { "a", "b" }, 1, 1) :
        c \in { None, "c1" }, st \in { "published", "draft" } }

\* What another post may look like: an article published in the past, or
\* one that differs from that in its type, its status or its publish
\* date (NULL or in the future); any category, any tags, created at 1 or 2.
OtherPosts ==
    { Post(c, k[1], k[2], tg, cr, k[3]) :
        c \in { None, "c1", "c2" },
        k \in { << "article", "published", 1 >>, << "story", "published", 1 >>,
                << "article", "draft", 1 >>, << "article", "published", 3 >>,
                << "article", "published", NoDate >> },
        tg \in SUBSET { "a", "b" },
        cr \in { 1, 2 } }

\* p.category_id = ? in SQL: never true of NULL.
SqlEq(a, b) == a # None /\ b # None /\ a = b

\* A slip: the category match weighs less than two shared tags.
RelevanceScoreLowCategory(p, current_post) ==
    (IF SqlEq(p.category_id, current_post.category_id) THEN 5 ELSE 0)
        + 3 * Cardinality(p.tags \cap current_post.tags)

\* relevance_score of the query
RelevanceScore(p, current_post) ==
    (IF SqlEq(p.category_id, current_post.category_id) THEN 10 ELSE 0)
        + 3 * Cardinality(p.tags \cap current_post.tags)

\* A slip: the status the current post has, where the query says
\* 'published'.
RelatedStatusOfCurrent(current_post) == current_post.status

\* The status the WHERE clause asks of a related post.
RelatedStatus(current_post) == "published"

\* The WHERE clause of the query, for the row of id i.
RelatedWhere(ps, i, post_id) ==
    LET p == ps[i]
        current_post == ps[post_id]
    IN  /\ i # post_id
        /\ p.status = RelatedStatus(current_post)
        /\ p.post_type = current_post.post_type
        /\ (p.publish_date = NoDate \/ p.publish_date <= Now)
        /\ \/ SqlEq(p.category_id, current_post.category_id)
           \/ p.tags \cap current_post.tags # {}

\* ORDER BY relevance_score DESC, p.created_at DESC: whether row i may
\* stand before row j.
MayPrecede(ps, i, j, post_id) ==
    LET si == RelevanceScore(ps[i], ps[post_id])
        sj == RelevanceScore(ps[j], ps[post_id])
    IN  si > sj \/ (si = sj /\ ps[i].created_at >= ps[j].created_at)

\* The orders in which the query may return the given rows: rows equal
\* in both sort keys come in either order.
Orderings(ps, ids, post_id) ==
    { sq \in [ 1..Cardinality(ids) -> ids ] :
        /\ \A a, b \in 1..Cardinality(ids) : a # b => sq[a] # sq[b]
        /\ \A a, b \in 1..Cardinality(ids) :
               a < b => MayPrecede(ps, sq[a], sq[b], post_id) }

\* LIMIT ?
Limit(sq, limit) == SubSeq(sq, 1, IF limit < Len(sq) THEN limit ELSE Len(sq))

\* PostModel.get_related_posts(post_id, limit)
get_related_posts(post_id, limit) ==
    /\ related = <<>>
    /\ IF post_id \notin DOMAIN posts
           THEN related' = [ post_id |-> post_id, limit |-> limit, rows |-> <<>> ]
           ELSE \E sq \in Orderings(posts,
                                   { i \in DOMAIN posts : RelatedWhere(posts, i, post_id) },
                                   post_id) :
                    related' = [ post_id |-> post_id, limit |-> limit,
                                 rows |-> Limit(sq, limit) ]
    /\ UNCHANGED << posts, notRelatedVars >>

InitRelated ==
    /\ RunnerIdle /\ UnitsIdle /\ AnalyticsIdle /\ AdminIdle
    /\ PublicIdle /\ AppIdle /\ LaterIdle
    /\ \E cur \in CurrentPosts, p2 \in OtherPosts, p3 \in OtherPosts :
           posts = << cur, p2, p3 >>
    /\ related = <<>>

NextRelated ==
    \E post_id \in { CurrentId, MissingId }, limit \in 0..MaxLimit :
        get_related_posts(post_id, limit)

\* One get_related_posts call on a table of three posts.
SpecRelated == InitRelated /\ [][NextRelated]_vars

\* -------------------------------------------------- admin sessions

Clients == { "browser1", "browser2" }

Usernames == { "admin", "guest" }

Passwords == { "pw1", "pw2" }

\* How many requests are sent in one behaviour.
MaxRequests == 3

\* Routes behind @admin_required that write, one or two for each kind of
\* content, with the kind they change.
AdminRoutes ==
    [ create_post |-> "posts", admin_delete_post |-> "posts",
      admin_create_category |-> "categories", admin_delete_tag |-> "tags",
      admin_create_template |-> "templates",
      admin_upload_images |-> "gallery",
      admin_email_config |-> "configuration", admin_about |-> "configuration" ]

\* Routes open to every visitor, with the kind they change (if any).
PublicRoutes == [ index |-> None, contact |-> "contact_messages" ]

Kinds ==
    { "posts", "categories", "tags", "templates", "gallery", "configuration",
      "contact_messages" }

NewSession == [ admin_logged_in |-> FALSE, admin_username |-> None ]

Sent == IF request = <<>> THEN 0 ELSE request.n

\* What is kept of a request: who sent it, to which route, with which
\* form data, the sessions and the content it found, and the answer.
Answer(client, route, form, answer) ==
    /\ Sent < MaxRequests
    /\ request' = [ n |-> Sent + 1, client |-> client, route |-> route,
                    form |-> form, sessions0 |-> sessions,
                    content0 |-> content, admin_users0 |-> admin_users,
                    answer |-> answer ]

\* A slip: the decorator lets everybody through.
AdminRequiredOpen(client) == TRUE

\* admin_required: whether the decorated view is run.
AdminRequired(client) == sessions[client].admin_logged_in

\* check_password_hash on the stored hash of the user, if there is one.
PasswordMatches(username, password) ==
    username \in DOMAIN admin_users /\ admin_users[username] = password

\* auth.admin_login, POST of a valid form
admin_login(client, username, password) ==
    IF PasswordMatches(username, password)
        THEN /\ sessions' = [ sessions EXCEPT ![client] =
                                [ admin_logged_in |-> TRUE,
                                  admin_username |-> username ] ]
             /\ Answer(client, "admin_login", << username, password >>,
                       "redirect admin_dashboard")
             /\ UNCHANGED << admin_users, content, notAdminVars >>
        ELSE /\ Answer(client, "admin_login", << username, password >>,
                       "Invalid username or password.")
             /\ UNCHANGED << sessions, admin_users, content, notAdminVars >>

\* auth.admin_logout
admin_logout(client) ==
    /\ sessions' = [ sessions EXCEPT ![client] = NewSession ]
    /\ Answer(client, "admin_logout", <<>>, "redirect index")
    /\ UNCHANGED << admin_users, content, notAdminVars >>

\* A writing route behind @admin_required, sent with valid data.
admin_route(client, route) ==
    IF AdminRequired(client)
        THEN /\ content' = [ content EXCEPT ![AdminRoutes[route]] = @ + 1 ]
             /\ Answer(client, route, <<>>, "done")
             /\ UNCHANGED << sessions, admin_users, notAdminVars >>
        ELSE /\ Answer(client, route, <<>>, "redirect admin_login")
             /\ UNCHANGED << sessions, admin_users, content, notAdminVars >>

\* admin.admin_change_password, POST of a valid form
admin_change_password(client, current_password, new_password) ==
    IF ~AdminRequired(client)
        THEN /\ Answer(client, "admin_change_password", <<>>, "redirect admin_login")
             /\ UNCHANGED << sessions, admin_users, content, notAdminVars >>
    ELSE IF PasswordMatches(sessions[client].admin_username, current_password)
        THEN /\ admin_users' =
                    [ admin_users EXCEPT ![sessions[client].admin_username] =
                        new_password ]
             /\ Answer(client, "admin_change_password", <<>>,
                       "redirect admin_dashboard")
             /\ UNCHANGED << sessions, content, notAdminVars >>
        ELSE /\ Answer(client, "admin_change_password", <<>>,
                       "Current password is incorrect.")
             /\ UNCHANGED << sessions, admin_users, content, notAdminVars >>

\* A route without the decorator.
public_route(client, route) ==
    /\ IF PublicRoutes[route] = None
           THEN /\ Answer(client, route, <<>>, "done")
                /\ UNCHANGED content
           ELSE /\ content' = [ content EXCEPT ![PublicRoutes[route]] = @ + 1 ]
                /\ Answer(client, route, <<>>, "done")
    /\ UNCHANGED << sessions, admin_users, notAdminVars >>

\* One stored admin, nobody logged in, nothing changed yet.
InitAdmin ==
    /\ RunnerIdle /\ UnitsIdle /\ AnalyticsIdle /\ RelatedIdle
    /\ PublicIdle /\ AppIdle /\ LaterIdle
    /\ sessions = [ c \in Clients |-> NewSession ]
    /\ admin_users = [ u \in { "admin" } |-> "pw1" ]
    /\ content = [ k \in Kinds |-> 0 ]
    /\ request = <<>>

NextAdmin ==
    \/ \E client \in Clients, username \in Usernames, password \in Passwords :
           admin_login(client, username, password)
    \/ \E client \in Clients : admin_logout(client)
    \/ \E client \in Clients, route \in DOMAIN AdminRoutes :
           admin_route(client, route)
    \/ \E client \in Clients, current \in Passwords, new \in Passwords :
           admin_change_password(client, current, new)
    \/ \E client \in Clients, route \in DOMAIN PublicRoutes :
           public_route(client, route)

\* Two browsers sending requests to the site.
SpecAdmin == InitAdmin /\ [][NextAdmin]_vars

\* ----------------------------------------------------- public pages

\* How many posts the admin creates in one behaviour.
MaxPosts == 2

\* Titles of posts (two characters at least) and the words a visitor
\* searches for.
Titles == { << "a", "b" >>, << "b", "c" >> }

Queries == { << "a" >>, << "b" >>, << "d" >> }

\* The content every post of the model carries.
ContentText == << "d" >>

TagSlugs == { "tag1", "tag2" }

\* The points in time a publish date is drawn from: one before and one
\* after the present.
PublishDates == { NoDate, Now - 1, Now + 1 }

\* The pages and page sizes a visitor asks for.
Pages == { 1, 2 }

IndexPerPage == { 2, 3 }

ArticlesPerPage == { 3, 6 }

\* text LIKE '%query%'
Like(text, query) ==
    \E i \in 1..(Len(text) - Len(query) + 1) :
        SubSeq(text, i, i + Len(query) - 1) = query

\* generate_unique_slug: the title's slug, with the first counter that
\* makes it a slug no post has.
GenerateUniqueSlug(title) ==
    LET taken == { site_posts[i].slug : i \in DOMAIN site_posts }
        free == { k \in 0..Len(site_posts) :
                     [ base |-> title, counter |-> k ] \notin taken }
    IN  [ base |-> title,
          counter |-> CHOOSE k \in free : \A j \in free : k <= j ]

\* posts.create_post on a valid form sent by the logged-in admin: a
\* publish date in the future makes the post a draft.
create_post(title, status, publish_date, tag) ==
    /\ Len(site_posts) < MaxPosts
    /\ site_posts' =
           Append(site_posts,
               [ title |-> title, content |-> ContentText,
                 slug |-> GenerateUniqueSlug(title),
                 status |-> IF publish_date # NoDate /\ publish_date > Now
                                THEN "draft" ELSE status,
                 publish_date |-> publish_date,
                 featured |-> FALSE, tag |-> tag,
                 created_at |-> Len(site_posts) + 1 ])
    /\ UNCHANGED << shown, notPublicVars >>

\* admin.admin_feature_post: PostModel.feature_post when the post exists.
admin_feature_post(post_id) ==
    /\ post_id \in DOMAIN site_posts
    /\ ~site_posts[post_id].featured
    /\ site_posts' =
           [ i \in DOMAIN site_posts |->
               [ site_posts[i] EXCEPT !.featured = (i = post_id) ] ]
    /\ UNCHANGED << shown, notPublicVars >>

\* ORDER BY created_at DESC of the given rows.
ByCreatedDesc(ids) ==
    LET n == Cardinality(ids)
    IN  CHOOSE sq \in [ 1..n -> ids ] :
            /\ \A a, b \in 1..n : a # b => sq[a] # sq[b]
            /\ \A a, b \in 1..n :
                   a < b => site_posts[sq[a]].created_at
                                > site_posts[sq[b]].created_at

\* LIMIT per_page OFFSET (page - 1) * per_page
Paginated(sq, page, per_page) ==
    LET offset == (page - 1) * per_page
        last == IF offset + per_page < Len(sq) THEN offset + per_page
                ELSE Len(sq)
    IN  { sq[i] : i \in (offset + 1)..last }

\* p.status = 'published' AND
\* (p.publish_date IS NULL OR p.publish_date <= CURRENT_TIMESTAMP)
Published(p) ==
    /\ p.status = "published"
    /\ (p.publish_date = NoDate \/ p.publish_date <= Now)

\* PostModel.get_featured_post: WHERE featured = 1 LIMIT 1
GetFeaturedPost == { i \in DOMAIN site_posts : site_posts[i].featured }

\* PostModel.get_non_featured_posts_paginated
GetNonFeaturedPostsPaginated(page, per_page) ==
    Paginated(ByCreatedDesc({ i \in DOMAIN site_posts :
                                 ~site_posts[i].featured }), page, per_page)

\* PostModel.get_all_posts_paginated
GetAllPostsPaginated(page, per_page) ==
    Paginated(ByCreatedDesc(DOMAIN site_posts), page, per_page)

\* PostModel.get_articles_paginated without a category
GetArticlesPaginated(page, per_page) ==
    Paginated(ByCreatedDesc({ i \in DOMAIN site_posts :
                                 Published(site_posts[i]) }), page, per_page)

\* PostModel.advanced_search without filters
AdvancedSearch(query, page, per_page) ==
    Paginated(ByCreatedDesc({ i \in DOMAIN site_posts :
                                 /\ site_posts[i].status = "published"
                                 /\ \/ Like(site_posts[i].title, query)
                                    \/ Like(site_posts[i].content, query) }),
              page, per_page)

\* PostModel.get_posts_by_tag
GetPostsByTag(slug, page, per_page) ==
    Paginated(ByCreatedDesc({ i \in DOMAIN site_posts :
                                 site_posts[i].tag = slug }), page, per_page)

\* PostModel.get_post_by_slug
GetPostBySlug(slug) == { i \in DOMAIN site_posts : site_posts[i].slug = slug }

\* What is kept of a public page: the route, whether the session that
\* asked carries the admin flag, and the posts handed to the template.
Render(route, admin_logged_in, ids) ==
    shown' = [ route |-> route, admin_logged_in |-> admin_logged_in,
               ids |-> ids ]

\* main.index
index(admin_logged_in, page, per_page) ==
    /\ LET featured_post == GetFeaturedPost
       IN  IF featured_post # {}
               THEN Render("index", admin_logged_in,
                        featured_post
                            \cup GetNonFeaturedPostsPaginated(page, per_page))
               ELSE Render("index", admin_logged_in,
                        GetAllPostsPaginated(page, per_page))
    /\ UNCHANGED << site_posts, notPublicVars >>

\* main.articles
articles(admin_logged_in, page, per_page) ==
    /\ Render("articles", admin_logged_in, GetArticlesPaginated(page, per_page))
    /\ UNCHANGED << site_posts, notPublicVars >>

\* search.search_posts with a query and no filter
search_posts(admin_logged_in, query, page, per_page) ==
    /\ Render("search_posts", admin_logged_in,
           AdvancedSearch(query, page, per_page))
    /\ UNCHANGED << site_posts, notPublicVars >>

\* search.posts_by_tag for a tag that exists
posts_by_tag(admin_logged_in, slug, page) ==
    /\ \E i \in DOMAIN site_posts : site_posts[i].tag = slug
    /\ Render("posts_by_tag", admin_logged_in, GetPostsByTag(slug, page, 10))
    /\ UNCHANGED << site_posts, notPublicVars >>

\* posts.view_post_by_slug
view_post_by_slug(admin_logged_in, slug) ==
    /\ Render("view_post_by_slug", admin_logged_in, GetPostBySlug(slug))
    /\ UNCHANGED << site_posts, notPublicVars >>

\* The slugs a visitor may ask for.
Slugs == { [ base |-> t, counter |-> k ] : t \in Titles, k \in 0..1 }

InitPublic ==
    /\ RunnerIdle /\ UnitsIdle /\ AnalyticsIdle /\ RelatedIdle /\ AdminIdle
    /\ AppIdle /\ LaterIdle
    /\ site_posts = <<>>
    /\ shown = <<>>

NextPublic ==
    \/ \E title \in Titles, status \in { "draft", "published" },
          publish_date \in PublishDates, tag \in TagSlugs \cup { None } :
           create_post(title, status, publish_date, tag)
    \/ \E post_id \in 1..MaxPosts : admin_feature_post(post_id)
    \/ \E a \in BOOLEAN, page \in Pages, per_page \in IndexPerPage :
           index(a, page, per_page)
    \/ \E a \in BOOLEAN, page \in Pages, per_page \in ArticlesPerPage :
           articles(a, page, per_page)
    \/ \E a \in BOOLEAN, query \in Queries, page \in Pages,
          per_page \in ArticlesPerPage :
           search_posts(a, query, page, per_page)
    \/ \E a \in BOOLEAN, slug \in TagSlugs, page \in Pages :
           posts_by_tag(a, slug, page)
    \/ \E a \in BOOLEAN, slug \in Slugs : view_post_by_slug(a, slug)

\* The admin writes posts; visitors open the public pages.
SpecPublic == InitPublic /\ [][NextPublic]_vars

\* ------------------------------------------------ app.py under test

\* How many calls the test client makes in one behaviour.
MaxCalls == 4

\* The form data a call of the test client carries: the title of
\* test_create_post or none, a post type among the choices or not.
FormTitles == { "Test Title", "" }

FormPostTypes == { "article", "essay" }

LoginPasswords == { "admin123", "wrong" }

Range(sq) == { sq[i] : i \in DOMAIN sq }

\* PostForm.validate_on_submit with CSRF checking switched off.
ValidateOnSubmit(form) ==
    /\ form.title # ""
    /\ form.content # ""
    /\ form.post_type \in { "article", "story" }

\* flash(message)
Flash(session, message) ==
    [ session EXCEPT !.flashes = Append(@, message) ]

\* What a view returns: a rendered template (which shows the flashed
\* messages and takes them off the session), a redirect, or an exception
\* that leaves the view.
Rendered(db, session, shows) ==
    [ kind |-> "page", to |-> None, db |-> db,
      session |-> [ session EXCEPT !.flashes = <<>> ],
      status_code |-> 200, data |-> shows \cup Range(session.flashes),
      raised |-> None ]

Redirected(db, session, to) ==
    [ kind |-> "redirect", to |-> to, db |-> db, session |-> session,
      status_code |-> 302, data |-> {}, raised |-> None ]

Raised(db, session, exc) ==
    [ kind |-> "raise", to |-> None, db |-> db, session |-> session,
      status_code |-> 0, data |-> {}, raised |-> exc ]

\* index of app.py: both queries name the column featured.
AppIndex(db, session) ==
    IF "featured" \notin db.posts_cols
        THEN Raised(db, session, "sqlite3.OperationalError")
        ELSE Rendered(db, session,
                 { db.posts[i].title : i \in DOMAIN db.posts })

\* admin_login of app.py
AppAdminLogin(db, session, method, username, password) ==
    IF method = "POST" /\ username # "" /\ password # ""
        THEN IF username \in DOMAIN db.admin_users
                    /\ db.admin_users[username] = password
                 THEN Redirected(db,
                          Flash([ session EXCEPT !.admin_logged_in = TRUE ],
                                "Successfully logged in as admin."),
                          "admin_dashboard")
                 ELSE Rendered(db,
                          Flash(session, "Invalid username or password."),
                          {})
        ELSE Rendered(db, session, {})

\* admin_logout of app.py
AppAdminLogout(db, session) ==
    Redirected(db,
        Flash([ session EXCEPT !.admin_logged_in = FALSE ],
              "You have been logged out."),
        "index")

\* admin_required of app.py: whether the decorated view is run.
AppAdminRequired(session) == session.admin_logged_in

\* The answer of admin_required to a session without the flag.
AdminAccessRequired(db, session) ==
    Redirected(db, Flash(session, "Admin access required."), "admin_login")

\* admin_dashboard of app.py
AppAdminDashboard(db, session) ==
    IF ~AppAdminRequired(session) THEN AdminAccessRequired(db, session)
    ELSE Rendered(db, session, { db.posts[i].title : i \in DOMAIN db.posts })

\* create_post of app.py
AppCreatePost(db, session, form) ==
    IF ~AppAdminRequired(session) THEN AdminAccessRequired(db, session)
    ELSE IF ValidateOnSubmit(form)
        THEN Redirected([ db EXCEPT !.posts = Append(@, form) ],
                 Flash(session, "Post created successfully!"), "index")
        ELSE Rendered(db, session, {})

\* The view a GET of the redirect target runs.
GetView(to, db, session) ==
    IF to = "index" THEN AppIndex(db, session)
    ELSE IF to = "admin_login" THEN AppAdminLogin(db, session, "GET", "", "")
    ELSE AppAdminDashboard(db, session)

\* follow_redirects=True
FollowRedirects(r) ==
    IF r.kind # "redirect" THEN r
    ELSE LET r2 == GetView(r.to, r.db, r.session)
         IN  IF r2.kind # "redirect" THEN r2
             ELSE GetView(r2.to, r2.db, r2.session)

Calls == IF response = <<>> THEN 0 ELSE response.n

\* What the test client gets back, with what it sent and the posts the
\* database held before.
Returns(name, form, r) ==
    /\ app_db' = r.db
    /\ app_session' = r.session
    /\ response' = [ n |-> Calls + 1, call |-> name, form |-> form,
                     logged_in0 |-> app_session.admin_logged_in,
                     posts0 |-> app_db.posts,
                     status_code |-> r.status_code, data |-> r.data,
                     raised |-> r.raised ]
    /\ UNCHANGED notAppVars

\* client.post('/create', data=form, follow_redirects=True)
client_post_create(form) ==
    /\ Calls < MaxCalls
    /\ Returns("post_create", form,
        FollowRedirects(AppCreatePost(app_db, app_session, form)))

\* client.post('/admin/login', data=..., follow_redirects=True)
client_post_admin_login(username, password) ==
    /\ Calls < MaxCalls
    /\ Returns("post_admin_login", <<>>,
        FollowRedirects(AppAdminLogin(app_db, app_session, "POST",
                                      username, password)))

\* client.get('/admin/logout', follow_redirects=True)
client_get_admin_logout ==
    /\ Calls < MaxCalls
    /\ Returns("get_admin_logout", <<>>,
        FollowRedirects(AppAdminLogout(app_db, app_session)))

\* client.get('/')
client_get_index ==
    /\ Calls < MaxCalls
    /\ Returns("get_index", <<>>, AppIndex(app_db, app_session))

\* The app and client fixtures: init_db of app.py on a new file, a test
\* client with no cookies.
InitApp ==
    /\ RunnerIdle /\ UnitsIdle /\ AnalyticsIdle /\ RelatedIdle /\ AdminIdle
    /\ PublicIdle /\ LaterIdle
    /\ app_db = [ posts_cols |-> AppInitDb["posts"].cols, posts |-> <<>>,
                  admin_users |-> [ u \in { "admin" } |-> "admin123" ] ]
    /\ app_session = [ admin_logged_in |-> FALSE, flashes |-> <<>> ]
    /\ response = <<>>

NextApp ==
    \/ \E title \in FormTitles, post_type \in FormPostTypes :
           client_post_create([ title |-> title, content |-> "Test Content",
                                excerpt |-> "Test Excerpt",
                                post_type |-> post_type ])
    \/ \E username \in { "admin", "guest" }, password \in LoginPasswords :
           client_post_admin_login(username, password)
    \/ client_get_admin_logout
    \/ client_get_index

\* The calls of a test of tests/test_app.py, one after the other.
SpecApp == InitApp /\ [][NextApp]_vars

\* ------------------------------------------------ missing entities

\* How many requests address an entity in one behaviour.
MaxAsked == 3

\* Of every kind of entity the one with id 1 exists at first; id 2 never
\* does.  A category and a tag are also addressed by their slugs.
EntityKinds == { "post", "category", "tag", "template", "image" }

EntityIds == { 1, 2 }

Asked == IF outcome = <<>> THEN 0 ELSE outcome.n

\* What is kept of a request: the route, the entity it addressed and
\* whether that existed, and the response (a redirect, a rendered page),
\* its status and the message flashed.
Outcome(route, kind, id, answer, status_code, flash) ==
    [ n |-> Asked + 1, route |-> route, kind |-> kind, id |-> id,
      found |-> id \in entities[kind], answer |-> answer,
      status_code |-> status_code, flash |-> flash ]

\* DELETE FROM <table> WHERE id = ?
DeleteEntity(kind, id) == [ entities EXCEPT ![kind] = @ \ { id } ]

\* posts.view_post
view_post(post_id) ==
    /\ Asked < MaxAsked
    /\ outcome' =
           IF post_id \notin entities["post"]
               THEN Outcome("view_post", "post", post_id, "redirect", 302,
                            "Post not found.")
               ELSE Outcome("view_post", "post", post_id, "redirect", 301, None)
    /\ UNCHANGED << entities, notMissingVars >>

\* main.articles_by_category
articles_by_category(category_slug) ==
    /\ Asked < MaxAsked
    /\ outcome' =
           IF category_slug \notin entities["category"]
               THEN Outcome("articles_by_category", "category", category_slug,
                            "page", 404, None)
               ELSE Outcome("articles_by_category", "category", category_slug,
                            "page", 200, None)
    /\ UNCHANGED << entities, notMissingVars >>

\* search.posts_by_tag, for every slug
search_posts_by_tag(slug) ==
    /\ Asked < MaxAsked
    /\ outcome' =
           IF slug \notin entities["tag"]
               THEN Outcome("posts_by_tag", "tag", slug, "page", 404, None)
               ELSE Outcome("posts_by_tag", "tag", slug, "page", 200, None)
    /\ UNCHANGED << entities, notMissingVars >>

\* admin.admin_delete_post with a valid form
admin_delete_post(post_id) ==
    /\ Asked < MaxAsked
    /\ IF post_id \in entities["post"]
           THEN /\ entities' = DeleteEntity("post", post_id)
                /\ outcome' = Outcome("admin_delete_post", "post", post_id,
                                  "redirect", 302, "Post deleted successfully!")
           ELSE /\ outcome' = Outcome("admin_delete_post", "post", post_id,
                                  "redirect", 302, "Post not found.")
                /\ UNCHANGED entities
    /\ UNCHANGED notMissingVars

\* admin.admin_delete_tag with a valid form
admin_delete_tag(tag_id) ==
    /\ Asked < MaxAsked
    /\ IF tag_id \in entities["tag"]
           THEN /\ entities' = DeleteEntity("tag", tag_id)
                /\ outcome' = Outcome("admin_delete_tag", "tag", tag_id,
                                  "redirect", 302, "Tag deleted successfully!")
           ELSE /\ outcome' = Outcome("admin_delete_tag", "tag", tag_id,
                                  "redirect", 302, "Tag not found.")
                /\ UNCHANGED entities
    /\ UNCHANGED notMissingVars

\* admin.admin_edit_template, GET
admin_edit_template(template_id) ==
    /\ Asked < MaxAsked
    /\ outcome' =
           IF template_id \notin entities["template"]
               THEN Outcome("admin_edit_template", "template", template_id,
                            "redirect", 302, "Template not found.")
               ELSE Outcome("admin_edit_template", "template", template_id,
                            "page", 200, None)
    /\ UNCHANGED << entities, notMissingVars >>

\* admin.admin_delete_template with a valid form: the template is not
\* looked up, and PostTemplateModel.delete_template deletes what rows
\* there are.
admin_delete_template(template_id) ==
    /\ Asked < MaxAsked
    /\ entities' = DeleteEntity("template", template_id)
    /\ outcome' = Outcome("admin_delete_template", "template", template_id,
                      "redirect", 302, "Template deleted successfully!")
    /\ UNCHANGED notMissingVars

\* admin.admin_delete_image with a valid form
admin_delete_image(image_id) ==
    /\ Asked < MaxAsked
    /\ IF image_id \in entities["image"]
           THEN /\ entities' = DeleteEntity("image", image_id)
                /\ outcome' = Outcome("admin_delete_image", "image", image_id,
                                  "redirect", 302, "Image deleted successfully!")
           ELSE /\ outcome' = Outcome("admin_delete_image", "image", image_id,
                                  "redirect", 302, "Image not found.")
                /\ UNCHANGED entities
    /\ UNCHANGED notMissingVars

InitMissing ==
    /\ EarlierIdle /\ NotMissingIdle
    /\ entities = [ k \in EntityKinds |-> { 1 } ]
    /\ outcome = <<>>

NextMissing ==
    \/ \E id \in EntityIds : view_post(id)
    \/ \E id \in EntityIds : articles_by_category(id)
    \/ \E id \in EntityIds : search_posts_by_tag(id)
    \/ \E id \in EntityIds : admin_delete_post(id)
    \/ \E id \in EntityIds : admin_delete_tag(id)
    \/ \E id \in EntityIds : admin_edit_template(id)
    \/ \E id \in EntityIds : admin_delete_template(id)
    \/ \E id \in EntityIds : admin_delete_image(id)

\* The logged-in admin and visitors address entities, some of which do
\* not exist (any more).
SpecMissing == InitMissing /\ [][NextMissing]_vars

\* ---------------------------------------------------- contact form

\* How many contact forms are submitted in one behaviour.
MaxContacts == 3

ContactSuccess == "Thank you for your message! We'll get back to you soon."

ContactError ==
    "Sorry, there was an error sending your message. Please try again."

Contacts == IF contacted = <<>> THEN 0 ELSE contacted.n

\* ActivityLogModel.log_activity: the INSERT raises when the table
\* activity_log does not exist; otherwise the row is committed.
LogActivityRaises(db) == ~db.activity_log_exists

LogActivity(db, action) ==
    [ db EXCEPT !.activity_log = Append(@, action) ]

\* ContactModel.save_message: the row is committed.
SaveMessage(db) == [ db EXCEPT !.contact_messages = @ + 1 ]

\* The body of contact after save_message returned: the database it
\* leaves and the message it flashes.  An exception of log_activity
\* reaches the outer handler.
AfterSave(db, send_ok) ==
    IF LogActivityRaises(db) THEN [ db |-> db, flash |-> ContactError ]
    ELSE LET db1 == LogActivity(db, "Contact Message Received")
         IN  IF db1.email_config
                 THEN IF send_ok
                          THEN [ db |-> LogActivity(db1, "Email Notification Sent"),
                                 flash |-> ContactSuccess ]
                          ELSE [ db |-> LogActivity(db1, "Email Notification Failed"),
                                 flash |-> ContactSuccess ]
                 ELSE [ db |-> LogActivity(db1, "Email Config Missing"),
                        flash |-> ContactSuccess ]

\* main.contact, POST: valid is what form.validate_on_submit() gives,
\* save_ok whether the INSERT of save_message succeeds, send_ok whether
\* send_contact_email returns.
contact(valid, save_ok, send_ok) ==
    /\ Contacts < MaxContacts
    /\ \E r \in { IF ~valid THEN [ db |-> contact_db, flash |-> None ]
                  ELSE IF ~save_ok THEN [ db |-> contact_db, flash |-> ContactError ]
                  ELSE AfterSave(SaveMessage(contact_db), send_ok) } :
           /\ contact_db' = r.db
           /\ contacted' =
                  [ n |-> Contacts + 1, valid |-> valid,
                    saved |-> valid /\ save_ok, send_ok |-> send_ok,
                    db0 |-> contact_db, flash |-> r.flash,
                    answer |-> IF r.flash = ContactSuccess THEN "redirect"
                               ELSE "page" ]
    /\ UNCHANGED notContactVars

\* admin.admin_email_config, POST with every field filled in.
admin_email_config ==
    /\ ~contact_db.email_config
    /\ contact_db' = [ contact_db EXCEPT !.email_config = TRUE ]
    /\ UNCHANGED << contacted, notContactVars >>

\* A database made by migrate_up (no activity_log) or by init_db_old
\* (with it), with or without an email configuration.
InitContact ==
    /\ EarlierIdle /\ NotContactIdle
    /\ \E exists \in BOOLEAN, config \in BOOLEAN :
           contact_db = [ activity_log_exists |-> exists, activity_log |-> <<>>,
                          contact_messages |-> 0, email_config |-> config ]
    /\ contacted = <<>>

NextContact ==
    \/ \E valid \in BOOLEAN, save_ok \in BOOLEAN, send_ok \in BOOLEAN :
           contact(valid, save_ok, send_ok)
    \/ admin_email_config

\* Visitors submit the contact form.
SpecContact == InitContact /\ [][NextContact]_vars

\* ------------------------------------------- slugs under concurrency

\* How many create-post and edit-post requests one behaviour holds, each
\* served on its own connection.
MaxSlugRequests == 2

SlugRequests == 1..MaxSlugRequests

SlugTitles == { << "a", "b" >>, << "b", "c" >> }

\* PostModel.slug_exists(slug, exclude_id)
SlugExists(rows, slug, exclude_id) ==
    \E i \in DOMAIN rows : rows[i].slug = slug /\ i # exclude_id

\* generate_unique_slug(title, post_id) on the rows the request sees;
\* post_id is 0 for None.
UniqueSlug(rows, title, post_id) ==
    LET free == { k \in 0..Len(rows) :
                     ~SlugExists(rows, [ base |-> title, counter |-> k ],
                                 post_id) }
    IN  [ base |-> title,
          counter |-> CHOOSE k \in free : \A j \in free : k <= j ]

SlugRequest(kind, pc, title, post_id, slug, wrote, found) ==
    [ kind |-> kind, pc |-> pc, title |-> title, post_id |-> post_id,
      slug |-> slug, wrote |-> wrote, found |-> found ]

\* create_post up to slug = generate_unique_slug(title)
create_post_slug(r, title) ==
    /\ slug_reqs[r] = <<>>
    /\ slug_reqs' =
           [ slug_reqs EXCEPT ![r] =
               SlugRequest("create", "slug", title, 0,
                           UniqueSlug(slug_posts, title, 0), 0, 0) ]
    /\ UNCHANGED << slug_posts, notSlugVars >>

\* create_post: PostModel.create_post, the INSERT and its commit
create_post_insert(r) ==
    /\ slug_reqs[r] # <<>>
    /\ slug_reqs[r].kind = "create" /\ slug_reqs[r].pc = "slug"
    /\ slug_posts' = Append(slug_posts, [ title |-> slug_reqs[r].title,
                                          slug |-> slug_reqs[r].slug ])
    /\ slug_reqs' = [ slug_reqs EXCEPT ![r].pc = "inserted",
                                       ![r].wrote = Len(slug_posts) + 1 ]
    /\ UNCHANGED notSlugVars

\* create_post: new_post = PostModel.get_post_by_slug(slug), the row
\* the tags are added to; fetchone() gives one of the rows with the slug.
create_post_lookup(r) ==
    /\ slug_reqs[r] # <<>>
    /\ slug_reqs[r].kind = "create" /\ slug_reqs[r].pc = "inserted"
    /\ \E i \in DOMAIN slug_posts :
           /\ slug_posts[i].slug = slug_reqs[r].slug
           /\ slug_reqs' = [ slug_reqs EXCEPT ![r].pc = "done",
                                             ![r].found = i ]
    /\ UNCHANGED << slug_posts, notSlugVars >>

\* edit_post up to the slug: a new one if the title changed
edit_post_slug(r, post_id, title) ==
    /\ slug_reqs[r] = <<>>
    /\ post_id \in DOMAIN slug_posts
    /\ slug_reqs' =
           [ slug_reqs EXCEPT ![r] =
               SlugRequest("edit", "slug", title, post_id,
                   IF title # slug_posts[post_id].title
                       THEN UniqueSlug(slug_posts, title, post_id)
                       ELSE slug_posts[post_id].slug,
                   0, 0) ]
    /\ UNCHANGED << slug_posts, notSlugVars >>

\* edit_post: PostModel.update_post, the UPDATE and its commit
edit_post_update(r) ==
    /\ slug_reqs[r] # <<>>
    /\ slug_reqs[r].kind = "edit" /\ slug_reqs[r].pc = "slug"
    /\ slug_posts' =
           [ slug_posts EXCEPT ![slug_reqs[r].post_id] =
               [ title |-> slug_reqs[r].title, slug |-> slug_reqs[r].slug ] ]
    /\ slug_reqs' = [ slug_reqs EXCEPT ![r].pc = "done",
                                       ![r].wrote = slug_reqs[r].post_id,
                                       ![r].found = slug_reqs[r].post_id ]
    /\ UNCHANGED notSlugVars

\* One post or none, no request under way.
InitSlug ==
    /\ EarlierIdle /\ NotSlugIdle
    /\ slug_posts \in
           { <<>> } \cup
           { << [ title |-> t, slug |-> [ base |-> t, counter |-> 0 ] ] >> :
               t \in SlugTitles }
    /\ slug_reqs = [ r \in SlugRequests |-> <<>> ]

NextSlug ==
    \/ \E r \in SlugRequests, title \in SlugTitles : create_post_slug(r, title)
    \/ \E r \in SlugRequests : create_post_insert(r)
    \/ \E r \in SlugRequests : create_post_lookup(r)
    \/ \E r \in SlugRequests, post_id \in 1..(MaxSlugRequests + 1),
          title \in SlugTitles :
           edit_post_slug(r, post_id, title)
    \/ \E r \in SlugRequests : edit_post_update(r)

\* Requests of the admin served side by side.
SpecSlug == InitSlug /\ [][NextSlug]_vars

\* -------------------------------------- featuring under concurrency

\* How many feature and unfeature requests are begun in one behaviour.
MaxFeatureRequests == 3

Connections == { "conn1", "conn2" }

FeaturePosts == { 1, 2 }

\* The ids a request may name; the last one is no post's.
FeatureIds == { 1, 2, 3 }

Conn(kind, pc, post_id, tx, overlap, error) ==
    [ kind |-> kind, pc |-> pc, post_id |-> post_id, tx |-> tx,
      overlap |-> overlap, error |-> error ]

\* A slip: the connection is opened with isolation_level=None, every
\* statement commits by itself.
ImplicitTransactionOff(c) == FALSE

\* sqlite3.connect(...) with the default isolation_level: the module
\* opens a transaction before an UPDATE and keeps it until commit().
ImplicitTransaction(c) == TRUE

\* Whether another connection holds the write lock of the database file.
Locked(c) == \E o \in Connections \ { c } : conns[o].tx # <<>>

\* Whether another request is between its SELECT and its commit.
Overlaps(c) == \E o \in Connections \ { c } : conns[o].pc \in { "found", "cleared", "updated" }

\* The rows the connection sees.
Seen(c) == IF conns[c].tx # <<>> THEN conns[c].tx ELSE featured

\* The effect of an UPDATE of connection c that leaves the rows t: they
\* stay in its transaction, or are committed at once.
Update(c, t, pc) ==
    /\ ~Locked(c)
    /\ IF ImplicitTransaction(c)
           THEN /\ conns' = [ conns EXCEPT ![c].tx = t, ![c].pc = pc ]
                /\ UNCHANGED featured
           ELSE /\ conns' = [ conns EXCEPT ![c].pc = pc ]
                /\ featured' = t

\* admin_feature_post / admin_unfeature_post: the post is looked up; a
\* missing post ends the request.
lookup_post(c, kind, post_id) ==
    /\ begun < MaxFeatureRequests
    /\ conns[c].pc \in { "idle", "done" }
    /\ begun' = begun + 1
    /\ conns' = [ conns EXCEPT ![c] =
                    Conn(kind, IF post_id \in FeaturePosts THEN "found" ELSE "done",
                         post_id, <<>>, Overlaps(c), None) ]
    /\ UNCHANGED << featured, notFeatureVars >>

\* feature_post: UPDATE posts SET featured = 0
feature_post_unfeature_all(c) ==
    /\ conns[c].kind = "feature" /\ conns[c].pc = "found"
    /\ Update(c, [ p \in FeaturePosts |-> FALSE ], "cleared")
    /\ UNCHANGED << begun, notFeatureVars >>

\* feature_post: UPDATE posts SET featured = 1 WHERE id = ?
feature_post_feature(c) ==
    /\ conns[c].kind = "feature" /\ conns[c].pc = "cleared"
    /\ Update(c, [ Seen(c) EXCEPT ![conns[c].post_id] = TRUE ], "updated")
    /\ UNCHANGED << begun, notFeatureVars >>

\* unfeature_post: UPDATE posts SET featured = 0 WHERE id = ?
unfeature_post_update(c) ==
    /\ conns[c].kind = "unfeature" /\ conns[c].pc = "found"
    /\ Update(c, [ Seen(c) EXCEPT ![conns[c].post_id] = FALSE ], "updated")
    /\ UNCHANGED << begun, notFeatureVars >>

\* db.commit()
db_commit(c) ==
    /\ conns[c].pc = "updated"
    /\ featured' = Seen(c)
    /\ conns' = [ conns EXCEPT ![c].tx = <<>>, ![c].pc = "done" ]
    /\ UNCHANGED << begun, notFeatureVars >>

\* An UPDATE that waited for the write lock in vain: sqlite3 raises
\* OperationalError (database is locked), the request ends and the
\* connection is closed without a commit.
database_is_locked(c) ==
    /\ conns[c].pc = "found"
    /\ Locked(c)
    /\ conns' = [ conns EXCEPT ![c].pc = "done",
                              ![c].error = "database is locked" ]
    /\ UNCHANGED << featured, begun, notFeatureVars >>

\* No post featured or one, no request under way.
InitFeature ==
    /\ EarlierIdle /\ NotFeatureIdle
    /\ \E f \in SUBSET FeaturePosts :
           /\ Cardinality(f) <= 1
           /\ featured = [ p \in FeaturePosts |-> p \in f ]
    /\ conns = [ c \in Connections |->
                   Conn(None, "idle", 0, <<>>, FALSE, None) ]
    /\ begun = 0

NextFeature ==
    \/ \E c \in Connections, kind \in { "feature", "unfeature" },
          post_id \in FeatureIds :
           lookup_post(c, kind, post_id)
    \/ \E c \in Connections : feature_post_unfeature_all(c)
    \/ \E c \in Connections : feature_post_feature(c)
    \/ \E c \in Connections : unfeature_post_update(c)
    \/ \E c \in Connections : db_commit(c)
    \/ \E c \in Connections : database_is_locked(c)

\* Feature and unfeature requests served side by side, each on its own
\* connection.
SpecFeature == InitFeature /\ [][NextFeature]_vars

\* ------------------------------------------- versions past the padding

\* How many units generate_migration adds in one behaviour.
MaxUnits == 3

\* The largest version of the directory at first: short of, at and past
\* the ends of one, two and three digits.
StartVersions == { 1, 8, 9, 98, 99, 997, 998, 999, 1000 }

\* The file generate_migration writes for a version.
UnitFile(version) == version \o << "_", "u" >> \o PyExt

\* _discover_migrations on a directory holding these units.
Discovered(versions) ==
    { << versions[i], UnitFile(versions[i]) >> : i \in DOMAIN versions }

\* generate_migration on the directory: one more unit, of the next
\* version.
generate_next ==
    /\ Len(unit_versions) <= MaxUnits
    /\ unit_versions' =
           Append(unit_versions, NextVersion(Discovered(unit_versions)))
    /\ UNCHANGED << apply_order, notVersionVars >>

\* migrate_up() without a target, every up() succeeding: the pending
\* units in sorted order.
migrate_up_all ==
    /\ LET applied == { apply_order[i] : i \in DOMAIN apply_order }
           pending == Sorted({ p \in Discovered(unit_versions) :
                                  p[1] \notin applied })
       IN  /\ pending # <<>>
           /\ apply_order' =
                  apply_order \o [ i \in DOMAIN pending |-> pending[i][1] ]
    /\ UNCHANGED << unit_versions, notVersionVars >>

\* A directory with one unit, nothing applied.
InitVersion ==
    /\ EarlierIdle /\ NotVersionIdle
    /\ \E n \in StartVersions : unit_versions = << Format03d(n) >>
    /\ apply_order = <<>>

NextVersions ==
    \/ generate_next
    \/ migrate_up_all

\* Units are generated one after the other and applied.
SpecVersion == InitVersion /\ [][NextVersions]_vars

\* ------------------------------------------ the introduction category

\* How many categories and how many posts the admin creates in one
\* behaviour.
MaxCategories == 2

MaxCategoryPosts == 2

CategorySlugs == { "introduction", "news", "essays" }

\* CategoryModel.slug_exists(slug, exclude_id); exclude_id 0 for None.
CategorySlugExists(slug, exclude_id) ==
    \E i \in DOMAIN categories : categories[i] = slug /\ i # exclude_id

\* PostModel.get_introduction_post: the posts joined to the category with
\* slug 'introduction' (LIMIT 1 takes one of them).
IntroductionPosts ==
    { p \in DOMAIN category_of :
        /\ category_of[p] \in DOMAIN categories
        /\ categories[category_of[p]] = "introduction" }

\* The categories a form offers: 0 for 'No Category' and the ids of
\* CategoryModel.get_all_categories().
CategoryChoices ==
    { 0 } \cup { i \in DOMAIN categories : categories[i] # None }

\* Whether the route refuses the category: it is the introduction
\* category and a post other than exclude_id is in it already.
IntroductionTaken(category_id, exclude_id) ==
    /\ category_id # 0
    /\ categories[category_id] = "introduction"
    /\ IntroductionPosts \ { exclude_id } # {}

\* posts.create_post with a valid form
create_post_category(category_id) ==
    /\ Len(category_of) < MaxCategoryPosts
    /\ category_id \in CategoryChoices
    /\ category_of' = IF IntroductionTaken(category_id, 0) THEN category_of
                      ELSE Append(category_of, category_id)
    /\ UNCHANGED << categories, notIntroVars >>

\* posts.edit_post with a valid form.  The route looks at one
\* introduction post (LIMIT 1) and accepts when that is the edited one.
edit_post(post_id, category_id) ==
    /\ post_id \in DOMAIN category_of
    /\ category_id \in CategoryChoices
    /\ \E existing_intro \in IF IntroductionPosts = {} THEN { 0 }
                             ELSE IntroductionPosts :
           category_of' =
               IF /\ category_id # 0
                  /\ categories[category_id] = "introduction"
                  /\ existing_intro # 0
                  /\ existing_intro # post_id
                   THEN category_of
                   ELSE [ category_of EXCEPT ![post_id] = category_id ]
    /\ UNCHANGED << categories, notIntroVars >>

\* admin.admin_create_category with a valid form
admin_create_category(slug) ==
    /\ Len(categories) < MaxCategories
    /\ ~CategorySlugExists(slug, 0)
    /\ categories' = Append(categories, slug)
    /\ UNCHANGED << category_of, notIntroVars >>

\* admin.admin_edit_category with a valid form
admin_edit_category(category_id, slug) ==
    /\ category_id \in DOMAIN categories
    /\ categories[category_id] # None
    /\ ~CategorySlugExists(slug, category_id)
    /\ categories[category_id] # slug
    /\ categories' = [ categories EXCEPT ![category_id] = slug ]
    /\ UNCHANGED << category_of, notIntroVars >>

\* admin.admin_delete_category: CategoryModel.delete_category unlinks the
\* posts and deletes the row.
admin_delete_category(category_id) ==
    /\ category_id \in DOMAIN categories
    /\ categories[category_id] # None
    /\ categories' = [ categories EXCEPT ![category_id] = None ]
    /\ category_of' = [ p \in DOMAIN category_of |->
                          IF category_of[p] = category_id THEN 0
                          ELSE category_of[p] ]
    /\ UNCHANGED notIntroVars

\* No category, no post.
InitIntro ==
    /\ EarlierIdle /\ NotIntroIdle
    /\ categories = <<>>
    /\ category_of = <<>>

NextIntro ==
    \/ \E category_id \in 0..MaxCategories : create_post_category(category_id)
    \/ \E post_id \in 1..MaxCategoryPosts, category_id \in 0..MaxCategories :
           edit_post(post_id, category_id)
    \/ \E slug \in CategorySlugs : admin_create_category(slug)
    \/ \E category_id \in 1..MaxCategories, slug \in CategorySlugs :
           admin_edit_category(category_id, slug)
    \/ \E category_id \in 1..MaxCategories : admin_delete_category(category_id)

\* The admin writes posts and categories, one request after the other.
SpecIntro == InitIntro /\ [][NextIntro]_vars

\* ------------------------------------------------------ tags of posts

\* How many data-access operations one behaviour holds, and how many
\* posts are created.
MaxTagOps == 4

MaxTagPosts == 2

\* The tag strings a form submits: '', 'a', 'a,b', 'a, A', ' ,' and 'A'.
TagStrings ==
    { <<>>, << "a" >>, << "a", ",", "b" >>, << "a", ",", " ", "A" >>,
      << " ", "," >>, << "A" >> }

\* s.split(c)
RECURSIVE Split(_, _)
Split(s, c) ==
    IF ~Contains(s, c) THEN << s >>
    ELSE LET first == SplitFirst(s, c)
         IN  << first >> \o Split(SubSeq(s, Len(first) + 2, Len(s)), c)

\* s.strip() for blanks
RECURSIVE Strip(_)
Strip(s) ==
    IF s = <<>> THEN s
    ELSE IF Head(s) = " " THEN Strip(Tail(s))
    ELSE IF s[Len(s)] = " " THEN Strip(SubSeq(s, 1, Len(s) - 1))
    ELSE s

\* parse_tags: the loop that drops empty tags and tags seen before in
\* another case.
RECURSIVE KeepNew(_, _)
KeepNew(tag_list, seen) ==
    IF tag_list = <<>> THEN <<>>
    ELSE LET tag == Head(tag_list)
         IN  IF tag # <<>> /\ Lower(tag) \notin seen
                 THEN << tag >> \o KeepNew(Tail(tag_list), seen \cup { Lower(tag) })
                 ELSE KeepNew(Tail(tag_list), seen)

\* parse_tags(tag_string)
ParseTags(tag_string) ==
    IF tag_string = <<>> THEN <<>>
    ELSE LET parts == Split(tag_string, ",")
         IN  KeepNew([ i \in DOMAIN parts |-> Strip(parts[i]) ], {})

\* generate_tag_slug on a name made of letters
GenerateTagSlug(tag_name) == Lower(tag_name)

\* The body of the loop of add_tags_to_post for one name: INSERT OR
\* IGNORE INTO tags (name and slug are unique), the tag is read back by
\* its slug and linked.
AddTag(db, post_id, tag_name) ==
    LET tag_slug == GenerateTagSlug(tag_name)
        conflict == \E i \in DOMAIN db.tags :
                        /\ db.tags[i].live
                        /\ (db.tags[i].name = tag_name \/ db.tags[i].slug = tag_slug)
        tags1 == IF conflict THEN db.tags
                 ELSE Append(db.tags, [ name |-> tag_name, slug |-> tag_slug,
                                         live |-> TRUE ])
        tag_id == CHOOSE i \in DOMAIN tags1 :
                      tags1[i].live /\ tags1[i].slug = tag_slug
    IN  [ tags |-> tags1,
          post_tags |-> db.post_tags \cup { << post_id, tag_id >> } ]

RECURSIVE AddTags(_, _, _)
AddTags(db, post_id, tag_names) ==
    IF tag_names = <<>> THEN db
    ELSE AddTags(AddTag(db, post_id, Head(tag_names)), post_id, Tail(tag_names))

\* PostModel.add_tags_to_post(post_id, tag_names)
AddTagsToPost(db, post_id, tag_names) ==
    IF tag_names = <<>> THEN db
    ELSE AddTags([ db EXCEPT !.post_tags =
                       { l \in @ : l[1] # post_id } ],
                 post_id, tag_names)

TagOps == tagged.ops

\* PostModel.create_post
model_create_post ==
    /\ TagOps < MaxTagOps
    /\ tag_posts.next <= MaxTagPosts
    /\ tag_posts' = [ ids |-> tag_posts.ids \cup { tag_posts.next },
                      next |-> tag_posts.next + 1 ]
    /\ tagged' = [ tagged EXCEPT !.ops = @ + 1 ]
    /\ UNCHANGED << tag_rows, post_tags, notTagVars >>

\* edit_post with a valid form, as far as the tags go: the tags field is
\* submitted, so form.tags.data is a string.
edit_post_tags(post_id, tag_string) ==
    /\ TagOps < MaxTagOps
    /\ post_id \in tag_posts.ids
    /\ \E db \in { AddTagsToPost([ tags |-> tag_rows, post_tags |-> post_tags ],
                                 post_id, ParseTags(tag_string)) } :
           /\ tag_rows' = db.tags
           /\ post_tags' = db.post_tags
    /\ tagged' = [ ops |-> TagOps + 1, post_id |-> post_id,
                   tag_string |-> tag_string, last |-> "edit_post" ]
    /\ UNCHANGED << tag_posts, notTagVars >>

\* PostModel.delete_post
delete_post(post_id) ==
    /\ TagOps < MaxTagOps
    /\ post_id \in tag_posts.ids
    /\ tag_posts' = [ tag_posts EXCEPT !.ids = @ \ { post_id } ]
    /\ tagged' = [ tagged EXCEPT !.ops = @ + 1, !.last = "delete_post" ]
    /\ UNCHANGED << tag_rows, post_tags, notTagVars >>

\* TagModel.delete_tag
delete_tag(tag_id) ==
    /\ TagOps < MaxTagOps
    /\ tag_id \in DOMAIN tag_rows
    /\ tag_rows[tag_id].live
    /\ post_tags' = { l \in post_tags : l[2] # tag_id }
    /\ tag_rows' = [ tag_rows EXCEPT ![tag_id].live = FALSE ]
    /\ tagged' = [ tagged EXCEPT !.ops = @ + 1, !.last = "delete_tag" ]
    /\ UNCHANGED << tag_posts, notTagVars >>

\* One post, no tag.
InitTag ==
    /\ EarlierIdle /\ NotTagIdle
    /\ tag_posts = [ ids |-> { 1 }, next |-> 2 ]
    /\ tag_rows = <<>>
    /\ post_tags = {}
    /\ tagged = [ ops |-> 0, post_id |-> 0, tag_string |-> <<>>,
                  last |-> None ]

NextTag ==
    \/ model_create_post
    \/ \E post_id \in 1..MaxTagPosts, tag_string \in TagStrings :
           edit_post_tags(post_id, tag_string)
    \/ \E post_id \in 1..MaxTagPosts : delete_post(post_id)
    \/ \E tag_id \in 1..MaxTagOps : delete_tag(tag_id)

\* Posts are written, tagged and deleted, tags are deleted.
SpecTag == InitTag /\ [][NextTag]_vars

\* ----------------------------------------- two migrate_up() at once

\* How many units wait in the directory.
MaxRaceUnits == 2

\* The two invocations, each on its own connection.
Invocations == { 1, 2 }

RaceVersions == 1..MaxRaceUnits

\* get_pending_migrations: the units whose version is not in the ledger,
\* sorted.
RECURSIVE RacePending(_, _)
RacePending(from, applied_versions) ==
    IF from > MaxRaceUnits THEN <<>>
    ELSE IF from \in applied_versions
        THEN RacePending(from + 1, applied_versions)
        ELSE << from >> \o RacePending(from + 1, applied_versions)

\* Another connection holds the write lock.
WriteLocked(i) == writer \notin { 0, i }

\* migrate_up: pending = self.get_pending_migrations(), and the return
\* when nothing is pending.
migrate_up_pending(i) ==
    /\ invocations[i].pc = "start"
    /\ \E pending \in { RacePending(1, ledger_rows) } :
           invocations' = [ invocations EXCEPT
               ![i] = [ pc |-> IF pending = <<>> THEN "done" ELSE "up",
                        pending |-> pending ] ]
    /\ UNCHANGED << ledger_rows, executed, writer, unit_writes, notRaceVars >>

\* migrate_up: migration.up(db) of the next pending unit.  Statements
\* that change rows open the connection's transaction.
migrate_up_apply(i) ==
    /\ invocations[i].pc = "up"
    /\ ~WriteLocked(i)
    /\ LET version == Head(invocations[i].pending)
       IN  /\ executed' = [ executed EXCEPT ![version] = @ \cup { i } ]
           /\ writer' = IF unit_writes[version] THEN i ELSE writer
    /\ invocations' = [ invocations EXCEPT ![i].pc = "record" ]
    /\ UNCHANGED << ledger_rows, unit_writes, notRaceVars >>

\* migrate_up: INSERT INTO schema_migrations; version is UNIQUE, so the
\* insert of a committed version raises, and the handler rolls back and
\* leaves the loop.
migrate_up_record(i) ==
    /\ invocations[i].pc = "record"
    /\ ~WriteLocked(i)
    /\ LET version == Head(invocations[i].pending)
       IN  IF version \in ledger_rows
               THEN /\ writer' = 0
                    /\ invocations' = [ invocations EXCEPT ![i].pc = "done" ]
               ELSE /\ writer' = i
                    /\ invocations' = [ invocations EXCEPT ![i].pc = "commit" ]
    /\ UNCHANGED << ledger_rows, executed, unit_writes, notRaceVars >>

\* migrate_up: db.commit(), and the next turn of the loop.
migrate_up_commit(i) ==
    /\ invocations[i].pc = "commit"
    /\ ledger_rows' = ledger_rows \cup { Head(invocations[i].pending) }
    /\ writer' = 0
    /\ LET rest == Tail(invocations[i].pending)
       IN  invocations' = [ invocations EXCEPT
               ![i] = [ pc |-> IF rest = <<>> THEN "done" ELSE "up",
                        pending |-> rest ] ]
    /\ UNCHANGED << executed, unit_writes, notRaceVars >>

\* migrate_up: a statement waits for the write lock until the timeout,
\* 'database is locked' is raised, and the handler rolls back and leaves
\* the loop.
migrate_up_locked(i) ==
    /\ invocations[i].pc \in { "up", "record" }
    /\ WriteLocked(i)
    /\ invocations' = [ invocations EXCEPT ![i].pc = "done" ]
    /\ UNCHANGED << ledger_rows, executed, writer, unit_writes, notRaceVars >>

\* _ensure_migrations_table has run: the ledger exists and is empty, the
\* units of the directory are pending.
InitRace ==
    /\ EarlierIdle /\ NotRaceIdle
    /\ invocations = [ i \in Invocations |-> [ pc |-> "start", pending |-> <<>> ] ]
    /\ ledger_rows = {}
    /\ executed = [ v \in RaceVersions |-> {} ]
    /\ writer = 0
    /\ unit_writes \in [ RaceVersions -> BOOLEAN ]

NextRace ==
    \E i \in Invocations :
        \/ migrate_up_pending(i)
        \/ migrate_up_apply(i)
        \/ migrate_up_record(i)
        \/ migrate_up_commit(i)
        \/ migrate_up_locked(i)

\* Two invocations of migrate_up() run against one database.
SpecRace == InitRace /\ [][NextRace]_vars

\* ----------------------------------------------------------- claims

\* How often the invocation ran the given step of the given unit file.
TimesFile(ev, f) ==
    Cardinality({ i \in 1..Len(call.events) :
                    call.events[i].ev = ev /\ call.events[i].file = f })

\* How often the invocation ran the given step for the given version.
TimesVersion(ev, v) ==
    Cardinality({ i \in 1..Len(call.events) :
                    call.events[i].ev = ev /\ call.events[i].version = v })

\* The number of ledger rows of a version.
RowsOf(l, v) == Cardinality({ i \in 1..Len(l) : l[i].version = v })

\* The invocation met no exception.
NoFailure == call.failAt = "" /\ call.exc = ""

\* What the invocation found pending / applied when it started.
Pending0 == PendingMigrations(call.dir0, call.ledger0)

UnitFiles(d) == { p[2] : p \in DiscoverMigrations(d) }

\* C1: a migrate_up() that meets no failure runs the apply of every
\* discovered unit whose version was not in the ledger exactly once and
\* leaves exactly one ledger row for it, so that nothing is pending
\* afterwards; for the two shipped units on a new database the status goes
\* from 0 applied / 2 pending to 2 applied / 0 pending.
C1_MigrateUpAppliesEveryPendingOnce ==
    (call.op = "migrate_up" /\ call.target = <<>> /\ NoFailure) =>
        /\ \A p \in DiscoverMigrations(call.dir0) :
               p[1] \notin AppliedVersions(call.ledger0) =>
                   /\ TimesFile("up", p[2]) = 1
                   /\ TimesVersion("up", p[1]) = 1
                   /\ RowsOf(ledger, p[1]) = 1
        /\ PendingMigrations(dir, ledger) = <<>>
        /\ (UnitFiles(call.dir0) = ShippedFiles /\ call.ledger0 = <<>>) =>
               /\ Status(call.dir0, call.ledger0).applied_count = 0
               /\ Status(call.dir0, call.ledger0).pending_count = 2
               /\ Status(dir, ledger).applied_count = 2
               /\ Status(dir, ledger).pending_count = 0

\* A migrate_up() on the new database with the two shipped units has
\* applied both.
C1_Witness ==
    /\ call.op = "migrate_up" /\ call.target = <<>> /\ NoFailure
    /\ UnitFiles(call.dir0) = ShippedFiles
    /\ call.ledger0 = <<>>
    /\ Len(ledger) = 2

\* The invocation found the unit file of every version it came to.
AllFound == \A i \in 1..Len(call.events) : call.events[i].ev # "notfound"

\* C2: after a migrate_down(target) that reports no failure, the versions
\* whose revert ran are exactly the ledger versions strictly greater than
\* the target, each reverted once and its row removed, and no version less
\* than or equal to the target is reverted or removed.
C2_MigrateDownRevertsAllAboveTarget ==
    (call.op = "migrate_down" /\ NoFailure /\ AllFound) =>
        LET above == { v \in AppliedVersions(call.ledger0) : StrLess(call.target, v) }
        IN  /\ { call.events[i].version :
                   i \in { j \in 1..Len(call.events) : call.events[j].ev = "down" } } = above
            /\ \A v \in above : TimesVersion("down", v) = 1
            /\ AppliedVersions(ledger) = AppliedVersions(call.ledger0) \ above

\* C3: a version has a ledger row exactly when its apply has run and it has
\* not been reverted since.
C3_LedgerIffApplied == AppliedVersions(ledger) = applyRun

\* C4: the pending versions and the applied versions are disjoint and
\* together are the discovered versions.
C4_PendingAppliedPartition ==
    LET pendingV == { PendingMigrations(dir, ledger)[i][1] :
                        i \in 1..Len(PendingMigrations(dir, ledger)) }
        appliedV == AppliedVersions(ledger)
        foundV == { p[1] : p \in DiscoverMigrations(dir) }
    IN  /\ pendingV \cap appliedV = {}
        /\ pendingV \cup appliedV = foundV

\* Some versions are applied and others pending after a migrate_down.
C4_Witness ==
    /\ call.op = "migrate_down"
    /\ ledger # <<>>
    /\ PendingMigrations(dir, ledger) # <<>>
    /\ Len(ledger) < Len(call.ledger0)

\* The position of a unit in the order in which migrate_up walks the
\* pending list.
Before(p, q) == PairLess(p, q)

\* C5 as stated: when the apply of pending version V raises, migrate_up
\* returns with every smaller pending version (within the target) in the
\* ledger, V not in the ledger, and no later unit started or recorded.
C5_ApplyFailureStopsSequence ==
    (call.op = "migrate_up" /\ call.failAt = "up") =>
        LET V == call.failVersion
            failing == << V, call.failFile >>
        IN  /\ call.signal = "results"
            /\ \A i \in 1..Len(Pending0) :
                   (StrLess(Pending0[i][1], V) /\ ~PastTarget(Pending0[i][1], call.target))
                       => Pending0[i][1] \in AppliedVersions(ledger)
            /\ V \notin AppliedVersions(ledger)
            /\ \A i \in 1..Len(Pending0) :
                   Before(failing, Pending0[i]) =>
                       /\ \A j \in 1..Len(call.events) :
                              call.events[j].file # Pending0[i][2]
                       /\ \A j \in 1..Len(ledger) : ledger[j].file # Pending0[i][2]

\* C5 as amended: as above, except that V is in the ledger when (and only
\* when) an earlier pending unit file with the same version string was
\* applied; no ledger row is written for the unit whose apply raised.
C5_ApplyFailureStopsSequenceAmended ==
    (call.op = "migrate_up" /\ call.failAt = "up") =>
        LET V == call.failVersion
            failing == << V, call.failFile >>
        IN  /\ call.signal = "results"
            /\ \A i \in 1..Len(Pending0) :
                   (StrLess(Pending0[i][1], V) /\ ~PastTarget(Pending0[i][1], call.target))
                       => Pending0[i][1] \in AppliedVersions(ledger)
            /\ \A j \in 1..Len(ledger) : ledger[j].file # call.failFile
            /\ V \in AppliedVersions(ledger) <=>
                   \E i \in 1..Len(Pending0) :
                       /\ Pending0[i][1] = V
                       /\ Before(Pending0[i], failing)
            /\ \A i \in 1..Len(Pending0) :
                   Before(failing, Pending0[i]) =>
                       /\ \A j \in 1..Len(call.events) :
                              call.events[j].file # Pending0[i][2]
                       /\ \A j \in 1..Len(ledger) : ledger[j].file # Pending0[i][2]

\* The apply of a unit raised after an earlier unit of the invocation was
\* applied and while a later one was still pending.
C5_Witness ==
    /\ call.op = "migrate_up" /\ call.failAt = "up"
    /\ Len(ledger) > Len(call.ledger0)
    /\ \E i \in 1..Len(Pending0) :
           Before(<< call.failVersion, call.failFile >>, Pending0[i])

\* C6: when a step of migrate_up or migrate_down raises, the call returns
\* the results list, one success entry per completed step and then one
\* failure entry naming the failing version; no exception escapes.
C6_FailureIsReportedNotRaised ==
    (call.op \in { "migrate_up", "migrate_down" } /\ call.failAt # "") =>
        /\ call.exc = ""
        /\ call.signal = "results"
        /\ Len(call.results) >= 1
        /\ call.results[Len(call.results)].kind \in
               { "Failed to apply", "Failed to rollback" }
        /\ call.results[Len(call.results)].version = call.failVersion
        /\ \A i \in 1..(Len(call.results) - 1) :
               call.results[i].kind \in { "Applied", "Rolled back" }

\* The "Applied" entries of the results, in order.
AppliedResults == SelectSeq(call.results, LAMBDA r : r.kind = "Applied")

\* The apply steps the invocation started, in order.
UpEvents == SelectSeq(call.events, LAMBDA e : e.ev = "up")

\* What C7 says of a target T: every pending version up to T is applied
\* unless a step fails, and no unit of a version greater than T has its
\* apply run or a row recorded.
UpToTarget ==
    /\ (call.target # <<>> /\ NoFailure) =>
           \A i \in 1..Len(Pending0) :
               StrLeq(Pending0[i][1], call.target) =>
                   /\ Pending0[i][1] \in AppliedVersions(ledger)
                   /\ \E k \in 1..Len(AppliedResults) :
                          AppliedResults[k].version = Pending0[i][1]
    /\ call.target # <<>> =>
           /\ \A j \in 1..Len(call.events) :
                  ~StrLess(call.target, call.events[j].version)
           /\ \A v \in AppliedVersions(ledger) \ AppliedVersions(call.ledger0) :
                  ~StrLess(call.target, v)

\* C7 as stated: migrate_up runs the apply of pending units in strictly
\* ascending version order; with a target T every pending version up to T
\* is applied unless a step fails, and no unit of a version greater than T
\* is applied or recorded.
C7_AscendingUpToTarget ==
    call.op = "migrate_up" =>
        /\ \A i, j \in 1..Len(UpEvents) :
               i < j => StrLess(UpEvents[i].version, UpEvents[j].version)
        /\ UpToTarget

\* C7 as amended: the applies run in ascending version order, units of
\* one version in file name order, and the versions reported as applied
\* are strictly ascending; the target part is as stated.
C7_AscendingUpToTargetAmended ==
    call.op = "migrate_up" =>
        /\ \A i, j \in 1..Len(UpEvents) :
               i < j => /\ StrLeq(UpEvents[i].version, UpEvents[j].version)
                        /\ Before(<< UpEvents[i].version, UpEvents[i].file >>,
                                  << UpEvents[j].version, UpEvents[j].file >>)
        /\ \A i, j \in 1..Len(AppliedResults) :
               i < j => StrLess(AppliedResults[i].version, AppliedResults[j].version)
        /\ UpToTarget

\* A migrate_up with a target applied two units in order and left a unit
\* of a greater version pending.
C7_Witness ==
    /\ call.op = "migrate_up" /\ call.target # <<>> /\ NoFailure
    /\ Len(AppliedResults) = 2
    /\ \E i \in 1..Len(Pending0) : StrLess(call.target, Pending0[i][1])
    /\ PendingMigrations(dir, ledger) # <<>>

\* The first step of the invocation that did not revert its version: the
\* position of its first event.
FirstUnreverted ==
    { i \in 1..Len(call.events) :
        /\ \/ call.events[i].ev = "notfound"
           \/ (call.failAt # "" /\ call.events[i].version = call.failVersion)
        /\ \A j \in 1..(i - 1) :
               /\ call.events[j].ev # "notfound"
               /\ ~(call.failAt # "" /\ call.events[j].version = call.failVersion) }

\* C8: migrate_down stops at the first step that fails to revert its
\* version (the revert raises, or the unit file is not found): no further
\* version is reverted, the versions reverted before stay out of the
\* ledger, and the failing version keeps its row.
C8_MigrateDownStopsAtFirstFailure ==
    call.op = "migrate_down" =>
        \A i \in FirstUnreverted :
            /\ \A j \in (i + 1)..Len(call.events) :
                   call.events[j].version = call.events[i].version
            /\ call.events[i].version \in AppliedVersions(ledger)
            /\ \A j \in 1..(i - 1) :
                   call.events[j].version \notin AppliedVersions(ledger)

F_003_add_quotes ==
    << "0", "0", "3", "_", "a", "d", "d", "_", "q", "u", "o", "t", "e", "s",
       ".", "p", "y" >>

C11_GeneratedUnitIsValid ==
    (call.op = "migrate_up" /\ call.target = <<>>) =>
        \A i \in 1..Len(Pending0) :
            LET v == Pending0[i][1]
                f == Pending0[i][2]
            IN  (/\ call.dir0[f].kind = "template"
                 /\ \/ NoFailure
                    \/ (call.failFile = f /\ call.failAt = "load")) =>
                    /\ TimesFile("load", f) = 1
                    /\ TimesFile("up", f) = 1
                    /\ UpStatements(f, call.dir0[f]) = <<>>
                    /\ Len(Pending0) = 1 => schema = call.schema0
                    /\ \E j \in 1..Len(ledger) :
                           ledger[j].version = v /\ ledger[j].file = f
                    /\ call.exc = ""

\* The tables the data-access layer reads and writes, the ledger aside.
LayoutTables ==
    { "posts", "categories", "tags", "post_tags", "admin_users",
      "email_config", "about_info", "social_links", "quotes",
      "post_templates", "image_gallery", "page_views", "daily_analytics",
      "post_analytics", "activity_log" }

\* C14: after a migrate_up() has applied the shipped units to a new
\* database, every table of the persisted layout exists, the activity log
\* included.
C14_AllLayoutTablesExist ==
    (/\ call.op = "migrate_up" /\ call.target = <<>> /\ NoFailure
     /\ UnitFiles(call.dir0) = ShippedFiles
     /\ call.ledger0 = <<>> /\ call.schema0 = {}
     /\ Len(ledger) = 2) =>
        LayoutTables \subseteq schema

\* The tables and indexes of a database with their columns, rows aside.
Shape(d) == { << o, d[o].kind, d[o].cols >> : o \in DOMAIN d }

\* C12: for each shipped unit, up, down, up again leaves the same tables,
\* columns and indexes as a single up.
C12_ApplyRevertApplyIsApply ==
    \A f \in ShippedFiles :
        steps = << Step(f, "up"), Step(f, "down"), Step(f, "up") >> =>
            Shape(udb) = Shape(UnitUp(f, udb0))

\* C13: a unit's down removes only what its up created: every table or
\* index that existed before the up is there, with its columns and rows,
\* after the up and the down.
C13_RevertKeepsOlderObjects ==
    \A f \in ShippedFiles :
        steps = << Step(f, "up"), Step(f, "down") >> =>
            \A o \in DOMAIN udb0 : o \in DOMAIN udb /\ udb[o] = udb0[o]

\* The positions of the page_views rows of a day / of a post.
ViewsOfDay(d) == { i \in 1..Len(page_views) : page_views[i].view_date = d }

ViewsOfPost(p) == { i \in 1..Len(page_views) : page_views[i].post_id = p }

\* The addresses among the given rows of page_views.
Addresses(rows) == { page_views[i].ip_address : i \in rows } \ { None }

\* C15: every aggregate row equals the recomputation from page_views: a
\* day's total_views is the number of its rows and unique_visitors the
\* number of distinct addresses among them; a viewed post's views_count is
\* the number of its rows and unique_views the number of distinct
\* addresses among them.
C15_AggregatesEqualRecomputation ==
    /\ DOMAIN daily_analytics =
           { page_views[i].view_date : i \in 1..Len(page_views) }
    /\ \A d \in DOMAIN daily_analytics :
           /\ daily_analytics[d].total_views = Cardinality(ViewsOfDay(d))
           /\ daily_analytics[d].unique_visitors = Cardinality(Addresses(ViewsOfDay(d)))
    /\ DOMAIN post_analytics =
           { page_views[i].post_id : i \in 1..Len(page_views) } \ { None }
    /\ \A p \in DOMAIN post_analytics :
           /\ post_analytics[p].views_count = Cardinality(ViewsOfPost(p))
           /\ post_analytics[p].unique_views = Cardinality(Addresses(ViewsOfPost(p)))

\* Three views of post 1 from two addresses: 3 and 2.
C15_Witness ==
    /\ Len(page_views) = 3
    /\ \A i \in 1..3 : page_views[i].post_id = "post1"
    /\ { page_views[i].ip_address : i \in 1..3 } = { "ip1", "ip2" }
    /\ post_analytics["post1"].views_count = 3
    /\ post_analytics["post1"].unique_views = 2

\* The score C16 gives a candidate: 10 for being in the category of the
\* post asked for, 3 for each tag shared with it.
Score(candidate, P) ==
    (IF candidate.category_id # None /\ candidate.category_id = P.category_id
         THEN 10 ELSE 0)
        + 3 * Cardinality(candidate.tags \cap P.tags)

\* A call for a post that exists has returned.
RelatedReturned == related # <<>> /\ related.post_id \in DOMAIN posts

\* C16: of two returned candidates the one with the greater score comes
\* first, and of two with equal scores the one created later; a candidate
\* of the same category with one shared tag (13) comes before one of
\* another category with two shared tags (6).
C16_RelatedOrderedByScore ==
    RelatedReturned =>
        LET P == posts[related.post_id]
            rows == related.rows
        IN  \A a, b \in 1..Len(rows) :
                LET A == posts[rows[a]]
                    B == posts[rows[b]]
                IN  /\ Score(A, P) > Score(B, P) => a < b
                    /\ (Score(A, P) = Score(B, P) /\ A.created_at > B.created_at)
                           => a < b

\* Both candidates were returned: one scoring 13, one scoring 6.
C16_Witness ==
    /\ RelatedReturned
    /\ Len(related.rows) = 2
    /\ Score(posts[related.rows[1]], posts[related.post_id]) = 13
    /\ Score(posts[related.rows[2]], posts[related.post_id]) = 6
    /\ posts[related.rows[2]].category_id = "c2"

\* C17 as stated: every returned post differs from P and has P's post
\* type and P's status, and at most N posts are returned, whether P is
\* published or a draft.
C17_RelatedSameTypeAndStatus ==
    RelatedReturned =>
        LET P == posts[related.post_id]
        IN  /\ Len(related.rows) <= related.limit
            /\ \A a \in 1..Len(related.rows) :
                   /\ related.rows[a] # related.post_id
                   /\ posts[related.rows[a]].post_type = P.post_type
                   /\ posts[related.rows[a]].status = P.status

\* C17 as amended: every returned post differs from P, has P's post type
\* and is published with no publish date in the future, and at most N
\* posts are returned, whether P is published or a draft.
C17_RelatedSameTypeAndStatusAmended ==
    RelatedReturned =>
        LET P == posts[related.post_id]
        IN  /\ Len(related.rows) <= related.limit
            /\ \A a \in 1..Len(related.rows) :
                   /\ related.rows[a] # related.post_id
                   /\ posts[related.rows[a]].post_type = P.post_type
                   /\ posts[related.rows[a]].status = "published"
                   /\ posts[related.rows[a]].publish_date <= Now

\* Related posts were returned for a draft, as many as the limit allowed
\* although one more matched.
C17_Witness ==
    /\ RelatedReturned
    /\ posts[related.post_id].status = "draft"
    /\ related.limit = 1
    /\ Len(related.rows) = 1
    /\ Cardinality({ i \in DOMAIN posts :
                       RelatedWhere(posts, i, related.post_id) }) = 2

\* The kinds of content C18 names.
Protected ==
    { "posts", "categories", "tags", "templates", "gallery", "configuration" }

\* The kinds of content the last request changed.
Changed == { k \in Kinds : content[k] # request.content0[k] }

\* The routes behind @admin_required.
Gated == DOMAIN AdminRoutes \cup { "admin_change_password" }

C19_PublicPagesShowPublishedOnly ==
    (shown # <<>> /\ ~shown.admin_logged_in) =>
        \A i \in shown.ids :
            /\ site_posts[i].status = "published"
            /\ \/ site_posts[i].publish_date = NoDate
               \/ site_posts[i].publish_date <= Now

\* C20: the first call of the test client on a freshly initialised
\* database, a POST to /create with a valid title, content, excerpt and
\* post type, stores the post, answers 200 with the message 'Post created
\* successfully!' and shows the post's title on the index page it is
\* redirected to.
C20_TestCreatePost ==
    (/\ response # <<>>
     /\ response.n = 1
     /\ response.call = "post_create"
     /\ ValidateOnSubmit(response.form)) =>
        /\ response.status_code = 200
        /\ "Post created successfully!" \in response.data
        /\ response.form.title \in response.data
        /\ app_db.posts = Append(response.posts0, response.form)

\* C21: on a database freshly created by init_db of app.py, the first call
\* of the test client, a GET of the index page, answers 200 (no query of
\* index names a column the schema lacks).
C21_IndexSucceedsOnFreshDatabase ==
    (/\ response # <<>>
     /\ response.n = 1
     /\ response.call = "get_index") =>
        /\ response.status_code = 200
        /\ response.raised = None

\* The messages that report an entity as not found.
NotFoundMessages ==
    { "Post not found.", "Category not found.", "Tag not found.",
      "Template not found.", "Image not found." }

\* C22: a request that addresses a post, category, tag, template or image
\* that does not exist ends in a redirect carrying a flash message that
\* reports the entity as not found; it never reports success.
C22_MissingEntityRedirectsWithMessage ==
    (outcome # <<>> /\ ~outcome.found) =>
        /\ outcome.answer = "redirect"
        /\ outcome.flash \in NotFoundMessages

\* C23: when a valid contact form is submitted and the message row is
\* saved, the visitor is shown the success message and the row stays,
\* whatever happens afterwards while notifying and logging.
C23_SavedContactMessageIsSuccess ==
    (contacted # <<>> /\ contacted.saved) =>
        /\ contacted.flash = ContactSuccess
        /\ contact_db.contact_messages = contacted.db0.contact_messages + 1

\* C24: after any interleaving of create-post and edit-post requests no
\* two posts have the same slug, and the slug a finished request
\* generated identifies exactly the post that request wrote.
C24_SlugsUniqueUnderInterleaving ==
    /\ \A i, j \in DOMAIN slug_posts :
           i # j => slug_posts[i].slug # slug_posts[j].slug
    /\ \A r \in DOMAIN slug_reqs :
           (slug_reqs[r] # <<>> /\ slug_reqs[r].pc = "done") =>
               slug_reqs[r].found = slug_reqs[r].wrote

\* C25: in every committed state reached by interleaved feature-post and
\* unfeature-post requests, each on its own connection, at most one post
\* has featured = 1.
C25_AtMostOneFeatured ==
    Cardinality({ p \in DOMAIN featured : featured[p] }) <= 1

\* Two feature requests for different posts that overlapped have both
\* committed.
C25_Witness ==
    /\ conns # <<>>
    /\ \A c \in Connections :
           /\ conns[c].kind = "feature" /\ conns[c].pc = "done"
           /\ conns[c].error = None
           /\ conns[c].post_id \in FeaturePosts
    /\ conns["conn1"].post_id # conns["conn2"].post_id
    /\ conns["conn1"].overlap \/ conns["conn2"].overlap
    /\ \E p \in DOMAIN featured : featured[p]

\* C26: of two units created by successive generate_migration calls the
\* later one's version compares greater as a string, whatever the number
\* of units (also past 999), and migrate_up applies units in creation
\* order.
C26_StringOrderIsCreationOrder ==
    /\ \A i, j \in DOMAIN unit_versions :
           i < j => StrLess(unit_versions[i], unit_versions[j])
    /\ (Len(apply_order) = Len(unit_versions)) => apply_order = unit_versions

\* C27: after any sequence of admin requests (create post, edit post,
\* create, edit and delete category) at most one post belongs to the
\* category whose slug is 'introduction'.
C27_AtMostOneIntroductionPost ==
    Cardinality({ p \in DOMAIN category_of :
                    \E i \in DOMAIN categories :
                        /\ category_of[p] = i
                        /\ categories[i] = "introduction" }) <= 1

\* The names of the tags linked to a post.
LinkedNames(post_id) ==
    { tag_rows[l[2]].name : l \in { k \in post_tags :
                                  /\ k[1] = post_id
                                  /\ k[2] \in DOMAIN tag_rows
                                  /\ tag_rows[k[2]].live } }

\* C28: after a successful edit-post request that submits the tag string
\* T, the tags linked to the post are those of parse_tags(T), for every T
\* including the empty string.
C28_EditSetsTagsToParsed ==
    (tagged.last = "edit_post") =>
        LET parsed == ParseTags(tagged.tag_string)
        IN  LinkedNames(tagged.post_id) = { parsed[i] : i \in DOMAIN parsed }

\* C29: every row of post_tags refers to a post and a tag that exist.
C29_PostTagsReferToExistingRows ==
    \A l \in post_tags :
        /\ l[1] \in tag_posts.ids
        /\ l[2] \in DOMAIN tag_rows
        /\ tag_rows[l[2]].live

\* C30: when two migrate_up() invocations run at once against the same
\* database, the up() of each pending unit is executed by at most one of
\* them.
C30_ApplyExecutedByAtMostOne ==
    \A version \in RaceVersions : Cardinality(executed[version]) <= 1

====
